---- MODULE Spec2Model ----
(***************************************************************************)
(* Multilingual cluster-text resolution of the BFF (server.mjs):           *)
(* ensureClusterTextInLang, translateNow, ensureClusterTextInLangDedup,    *)
(* the cluster_ai table they read and write, and the field translator      *)
(* translateFieldsCached (src/utils/gemini.mjs) with its in-process cache.  *)
(*                                                                         *)
(* Every await of the resolver is one action; a storage operation takes    *)
(* effect atomically at its action.  Language tags are sequences of        *)
(* subtags (<<"de","CH">> is de-CH).  A text is a record: src names the    *)
(* content, lang the language (or "raw" form) it is written in, mark       *)
(* whether it contains the stub marker " [translated]", ws whether it has  *)
(* trailing white space.                                                   *)
(***************************************************************************)
EXTENDS Integers, Sequences, FiniteSets, TLC

VARIABLES cluster_ai, cache, _ensureInflight, runs, calls,
          tn, negotiated, feed, lru, split,
          mtCache, translations, mtCalls, translateMetrics, env,
          PERSIST_MAX_CONCURRENCY, _persistQueue, _persistActive, drains, jobs,
          RATE_LIMIT_BATCH, _ipBuckets, now, requests

\* The resolver and its callers
resolverVars == <<cluster_ai, cache, _ensureInflight, runs, calls>>

\* One translateNow call; the language negotiations made; one GET /feed
tnVars == <<tn, negotiated, feed, lru, split>>

\* The text translator (src/utils/gemini.mjs)
mtVars == <<mtCache, translations, mtCalls, translateMetrics, env>>

\* The background persistence queue
queueVars ==
  <<PERSIST_MAX_CONCURRENCY, _persistQueue, _persistActive, drains, jobs>>

\* POST /translate/batch and its rate limiter
batchVars == <<RATE_LIMIT_BATCH, _ipBuckets, now, requests>>

vars == <<resolverVars, tnVars, mtVars, queueVars, batchVars>>

\* What a resolver step leaves alone
notResolver == <<tnVars, mtVars, queueVars, batchVars>>

-----------------------------------------------------------------------------
(* Bounds *)

MaxCalls == 2

-----------------------------------------------------------------------------
(* Language utilities *)

ToLowerCase(s) ==
  CASE s = "DE" -> "de"
    [] s = "EN" -> "en"
    [] s = "CH" -> "ch"
    [] s = "US" -> "us"
    [] OTHER -> s

ToUpperCase(s) ==
  CASE s = "de" -> "DE"
    [] s = "en" -> "EN"
    [] s = "ch" -> "CH"
    [] s = "us" -> "US"
    [] OTHER -> s

NoTag == <<>>

\* normalizeBcp47: language subtag lower-cased, a two-letter region upper-cased.
\* Every region subtag of the model has two letters.
normalizeBcp47(tag) ==
  IF tag = NoTag THEN NoTag
  ELSE IF Len(tag) = 1 THEN <<ToLowerCase(tag[1])>>
  ELSE <<ToLowerCase(tag[1]), ToUpperCase(tag[2])>>

\* negotiateLanguage: ?lang when it normalizes to a tag, otherwise the header's
\* first tag, otherwise en.
negotiateLanguage(queryLang, headerLang) ==
  LET q == normalizeBcp47(queryLang)
      h == normalizeBcp47(headerLang)
  IN  IF q # NoTag THEN q ELSE IF h # NoTag THEN h ELSE <<"en">>

\* base = (t) => (t || "").split("-")[0].toLowerCase()
base(t) == IF t = NoTag THEN "" ELSE ToLowerCase(t[1])

AutoTag == <<"auto">>
EnTag == <<"en">>

-----------------------------------------------------------------------------
(* Texts *)

EmptyText == [src |-> 0, lang |-> "", mark |-> FALSE, ws |-> FALSE]

Txt(n, l) == [src |-> n, lang |-> l, mark |-> FALSE, ws |-> FALSE]

\* norm = (s) => (s || "").replace(/\s+/g, " ").trim()
norm(t) == [t EXCEPT !.ws = FALSE]

\* clean = (v) => (v || "").replace(/\s+$/g, "")
clean(t) == IF t.mark THEN t ELSE [t EXCEPT !.ws = FALSE]

\* (s || "").includes(" [translated]")
includesStubMarker(t) == t.mark

\* text + " [translated]"
WithMarker(t) == IF t = EmptyText THEN [t EXCEPT !.src = 0, !.mark = TRUE]
                 ELSE [t EXCEPT !.mark = TRUE]

\* The provider's answer for a text and a destination language.
ProviderText(t, dstLang) == [t EXCEPT !.lang = base(dstLang), !.ws = FALSE]

-----------------------------------------------------------------------------
(* Field translator: translateFieldsCached with the in-process cache *)

MT_RETRIES == 3

MT_BACKOFF_MS == 200

\* keyFor(text, src, dst): the sha1 of the three parts, taken as injective.
keyFor(text, src, dst) == <<src, dst, text>>

\* A cache destination taken from the last subtag of the tag
baseLangRegion(tag) == IF tag = NoTag THEN "" ELSE ToLowerCase(tag[Len(tag)])

\* baseLang(tag) of the translator module
baseLang(tag) == IF tag = NoTag THEN "" ELSE ToLowerCase(tag[1])

cacheHas(cch, k) == \E e \in cch : e.key = k

cacheGet(cch, k) == (CHOOSE e \in cch : e.key = k).val

\* A cache that stores nothing
lruSetNothing(cch, k, v) == cch

\* lruSet(k, v); the capacity MAX_CACHE (500) is never reached by the few keys
\* of the model, so no entry is evicted.
lruSet(cch, k, v) == {e \in cch : e.key # k} \cup {[key |-> k, val |-> v]}

\* What the provider does with one translateFieldsCached call:
\*   "json"  the single JSON call answers with all three fields translated
\*   "echo"  the JSON call answers valid JSON without usable fields
\*   "text"  the JSON call fails or is not JSON, the per-field calls succeed
\*   "down"  every provider attempt fails or times out
ProviderOutcomes == {"json", "echo", "text", "down"}

\* translateTextCached(text, {srcLang, dstLang}) for a text below the chunk
\* threshold: in-process cache, else the provider through
\* attemptTranslateWithRetries; the result is cached whatever it is.
\* Returns the text, the cache and the number of provider attempts.
translateTextCached(text, srcLang, dstLang, up, cch) ==
  LET cacheDst == baseLang(dstLang)
      key == keyFor(text, srcLang, cacheDst)
      out == IF up THEN ProviderText(text, dstLang) ELSE WithMarker(text)
  IN  IF text = EmptyText \/ dstLang = NoTag
        THEN [text |-> text, cache |-> cch, prov |-> 0]
      ELSE IF cacheHas(cch, key)
        THEN [text |-> cacheGet(cch, key), cache |-> cch, prov |-> 0]
      ELSE [text |-> out, cache |-> lruSet(cch, key, out),
            prov |-> IF up THEN 1 ELSE MT_RETRIES + 1]

\* The three-call fallback of translateFieldsCached, title then summary then
\* details, each seeing the cache the previous one left.
PerFieldPath(f, srcLang, dstLang, up, cch) ==
  LET t == IF f.title = EmptyText
             THEN [text |-> EmptyText, cache |-> cch, prov |-> 0]
             ELSE translateTextCached(f.title, srcLang, dstLang, up, cch)
      s == IF f.summary = EmptyText
             THEN [text |-> EmptyText, cache |-> t.cache, prov |-> 0]
             ELSE translateTextCached(f.summary, srcLang, dstLang, up, t.cache)
      d == IF f.details = EmptyText
             THEN [text |-> EmptyText, cache |-> s.cache, prov |-> 0]
             ELSE translateTextCached(f.details, srcLang, dstLang, up, s.cache)
  IN  [title |-> t.text, summary |-> s.text, details |-> d.text,
       cache |-> d.cache, prov |-> 1 + t.prov + s.prov + d.prov, called |-> 1]

JsonField(orig, answered, dstLang) ==
  IF answered /\ orig # EmptyText THEN ProviderText(orig, dstLang) ELSE orig

CacheField(cch, orig, translated, srcLang, cacheDst) ==
  IF orig = EmptyText THEN cch
  ELSE lruSet(cch, keyFor(orig, srcLang, cacheDst), translated)

translateFieldsCached(f, srcLang, dstLang, oc, cch) ==
  LET cacheDst == baseLang(dstLang)
      kTitle == keyFor(f.title, srcLang, cacheDst)
      kSummary == keyFor(f.summary, srcLang, cacheDst)
      kDetails == keyFor(f.details, srcLang, cacheDst)
      hitT == f.title # EmptyText /\ cacheHas(cch, kTitle)
      hitS == f.summary # EmptyText /\ cacheHas(cch, kSummary)
      hitD == f.details # EmptyText /\ cacheHas(cch, kDetails)
      allHit == (f.title # EmptyText => hitT)
                /\ (f.summary # EmptyText => hitS)
                /\ (f.details # EmptyText => hitD)
      answered == oc = "json"
      oT == JsonField(f.title, answered, dstLang)
      oS == JsonField(f.summary, answered, dstLang)
      oD == JsonField(f.details, answered, dstLang)
      c1 == CacheField(cch, f.title, oT, srcLang, cacheDst)
      c2 == CacheField(c1, f.summary, oS, srcLang, cacheDst)
      c3 == CacheField(c2, f.details, oD, srcLang, cacheDst)
  IN  IF f.title = EmptyText /\ f.summary = EmptyText /\ f.details = EmptyText
        THEN [title |-> f.title, summary |-> f.summary, details |-> f.details,
              cache |-> cch, prov |-> 0, called |-> 1]
      ELSE IF allHit
        THEN [title |-> IF hitT THEN cacheGet(cch, kTitle) ELSE f.title,
              summary |-> IF hitS THEN cacheGet(cch, kSummary) ELSE f.summary,
              details |-> IF hitD THEN cacheGet(cch, kDetails) ELSE f.details,
              cache |-> cch, prov |-> 0, called |-> 1]
      ELSE IF oc \in {"text", "down"}
        THEN PerFieldPath(f, srcLang, dstLang, oc = "text", cch)
      ELSE [title |-> oT, summary |-> oS, details |-> oD,
            cache |-> c3, prov |-> 1, called |-> 1]

-----------------------------------------------------------------------------
(* cluster_ai rows *)

NoSig == <<>>

\* The model column: whether it contains "#ph=<sig>" (and which sig) and
\* whether it contains "#body=orig".
ModelTag(ph, orig) == [ph |-> ph, orig |-> orig]

NoRow == [id |-> 0, cluster_id |-> "", lang |-> NoTag, ai_title |-> EmptyText,
          ai_summary |-> EmptyText, ai_details |-> EmptyText,
          is_current |-> FALSE, created_at |-> 0,
          model |-> ModelTag(NoSig, FALSE), pivot_hash |-> NoSig]

Row(id, c, l, t, s, d, cur, at, m, ph) ==
  [id |-> id, cluster_id |-> c, lang |-> l, ai_title |-> t, ai_summary |-> s,
   ai_details |-> d, is_current |-> cur, created_at |-> at, model |-> m,
   pivot_hash |-> ph]

\* sha1(title \n summary \n details).slice(0, 10), taken as injective
pivotSigOf(p) == <<p.ai_title, p.ai_summary, p.ai_details>>

Rows(tbl) == {tbl[i] : i \in 1..Len(tbl)}

\* .eq("cluster_id", c).eq("lang", l).eq("is_current", true)
CurrentOf(tbl, c, l) ==
  {r \in Rows(tbl) : r.cluster_id = c /\ r.lang = l /\ r.is_current}

\* .eq("cluster_id", c).eq("is_current", true)
CurrentsOf(tbl, c) == {r \in Rows(tbl) : r.cluster_id = c /\ r.is_current}

\* The select list of ensureClusterTextInLang leaves pivot_hash out.
Selected(r) == [r EXCEPT !.pivot_hash = NoSig]

\* maybeSingle(): the row, null for no row, an error for several rows.
maybeSingle(rs) ==
  IF Cardinality(rs) > 1 THEN [error |-> TRUE, data |-> NoRow]
  ELSE IF rs = {} THEN [error |-> FALSE, data |-> NoRow]
  ELSE [error |-> FALSE, data |-> Selected(CHOOSE r \in rs : TRUE)]

\* created_at default now(): later than every row already stored
Now(tbl) == Len(tbl) + 2

\* insert({... is_current: true}) of the resolver
InsertRow(tbl, c, l, tr, sig, withHash) ==
  Append(tbl, Row(Len(tbl) + 1, c, l, tr.ai_title, tr.ai_summary, tr.ai_details,
                  TRUE, Now(tbl), ModelTag(sig, FALSE),
                  IF withHash THEN sig ELSE NoSig))

\* An update that matches no row
UpdateNothing(tbl, id) == tbl

\* update({is_current: false}).eq("id", id)
UpdateById(tbl, id) ==
  [i \in 1..Len(tbl) |->
     IF tbl[i].id = id THEN [tbl[i] EXCEPT !.is_current = FALSE] ELSE tbl[i]]

\* update({is_current: false}).eq(cluster_id).eq(lang).eq(is_current, true)
\* update({is_current: false}) that flips the flag of the rows it selects
UpdateByLangToggles(tbl, c, l) ==
  [i \in 1..Len(tbl) |->
     IF tbl[i].cluster_id = c /\ tbl[i].lang = l
       THEN [tbl[i] EXCEPT !.is_current = ~@] ELSE tbl[i]]

UpdateByLang(tbl, c, l) ==
  [i \in 1..Len(tbl) |->
     IF tbl[i].cluster_id = c /\ tbl[i].lang = l /\ tbl[i].is_current
       THEN [tbl[i] EXCEPT !.is_current = FALSE] ELSE tbl[i]]

\* Date.parse(created_at || 0) || 0; a missing created_at is 0
DateParse(at) == at

-----------------------------------------------------------------------------
(* translateNow and the freshness test *)

isOrigBody(row) == row.model.orig

\* translateNow that passes the pivot through only for identical tags
translateNowExactOnly(pivot, srcLang, dstLang, oc, cch) ==
  LET s == normalizeBcp47(srcLang)
      d == normalizeBcp47(dstLang)
      details == IF pivot.ai_details # EmptyText THEN pivot.ai_details
                 ELSE pivot.ai_summary
      res == translateFieldsCached(
               [title |-> pivot.ai_title, summary |-> pivot.ai_summary,
                details |-> details],
               IF isOrigBody(pivot) THEN AutoTag ELSE s, d, oc, cch)
  IN  IF d = NoTag \/ s = d
        THEN [row |-> pivot, cache |-> cch, called |-> 0, prov |-> 0]
      ELSE [row |-> [NoRow EXCEPT !.id = pivot.id, !.lang = d,
                       !.ai_title = clean(res.title),
                       !.ai_summary = clean(res.summary),
                       !.ai_details = clean(res.details),
                       !.is_current = TRUE],
            cache |-> res.cache, called |-> res.called, prov |-> res.prov]

\* translateNow(pivot, srcLang, dstLang): the translated row, the cache and the
\* translator and provider calls made.
translateNow(pivot, srcLang, dstLang, oc, cch) ==
  LET s == normalizeBcp47(srcLang)
      d == normalizeBcp47(dstLang)
      passThrough == [row |-> pivot, cache |-> cch, called |-> 0, prov |-> 0]
      details == IF pivot.ai_details # EmptyText THEN pivot.ai_details
                 ELSE pivot.ai_summary
      res == translateFieldsCached(
               [title |-> pivot.ai_title, summary |-> pivot.ai_summary,
                details |-> details],
               IF isOrigBody(pivot) THEN AutoTag ELSE s, d, oc, cch)
  IN  IF d = NoTag \/ s = d THEN passThrough
      ELSE IF ~isOrigBody(pivot) /\ base(s) = base(d) THEN passThrough
      ELSE [row |-> [NoRow EXCEPT !.id = pivot.id, !.lang = d,
                       !.ai_title = clean(res.title),
                       !.ai_summary = clean(res.summary),
                       !.ai_details = clean(res.details),
                       !.is_current = TRUE],
            cache |-> res.cache, called |-> res.called, prov |-> res.prov]

\* The legacy test without the comparison of the languages
needsRefreshAnyLang(a, b, useRow, pivot) == norm(a) = norm(b)

needsRefresh(a, b, useRow, pivot) == norm(a) = norm(b) /\ useRow.lang # pivot.lang

hasStubMarker(useRow) ==
  \/ includesStubMarker(useRow.ai_title)
  \/ includesStubMarker(useRow.ai_summary)
  \/ includesStubMarker(useRow.ai_details)

samePivotSig(useRow, pivot) ==
  \/ (useRow.pivot_hash # NoSig /\ useRow.pivot_hash = pivotSigOf(pivot))
  \/ useRow.model.ph = pivotSigOf(pivot)

\* The freshness test without the stub-marker check
IsFreshNoStub(useRow, pivot) ==
  /\ (samePivotSig(useRow, pivot)
        \/ DateParse(useRow.created_at) >= DateParse(pivot.created_at))
  /\ ~needsRefresh(useRow.ai_title, pivot.ai_title, useRow, pivot)
  /\ ~needsRefresh(useRow.ai_summary, pivot.ai_summary, useRow, pivot)
  /\ ~needsRefresh(useRow.ai_details, pivot.ai_details, useRow, pivot)

\* The condition of the "fresh" branch
IsFresh(useRow, pivot) ==
  /\ (samePivotSig(useRow, pivot)
        \/ DateParse(useRow.created_at) >= DateParse(pivot.created_at))
  /\ ~needsRefresh(useRow.ai_title, pivot.ai_title, useRow, pivot)
  /\ ~needsRefresh(useRow.ai_summary, pivot.ai_summary, useRow, pivot)
  /\ ~needsRefresh(useRow.ai_details, pivot.ai_details, useRow, pivot)
  /\ ~hasStubMarker(useRow)

-----------------------------------------------------------------------------
(* Resolver invocations and their callers *)

ClusterIds == {"c1"}

\* ?lang values of the requests, before negotiation
RequestTags == {<<"de">>, <<"de", "ch">>, <<"en">>}

TargetTags == {normalizeBcp47(t) : t \in RequestTags}

Keys == ClusterIds \X TargetTags

\* What a storage write can do: take effect, answer with an error object, or
\* throw.
WriteOutcomes == {"ok", "error", "throw"}

Pending == [kind |-> "pending", row |-> NoRow, is_translated |-> FALSE,
            translated_from |-> NoTag]

Rejected == [Pending EXCEPT !.kind = "error"]

ReturnedNull == [Pending EXCEPT !.kind = "null"]

\* { ...useRow, is_translated: false, translated_from: null }
ReturnedAsIs(useRow) ==
  [kind |-> "value", row |-> useRow, is_translated |-> FALSE,
   translated_from |-> NoTag]

\* { ...translated, is_translated: true, translated_from: pivot.lang }
ReturnedTranslated(translated, pivot) ==
  [kind |-> "value", row |-> translated, is_translated |-> TRUE,
   translated_from |-> pivot.lang]

\* Bookkeeping of a run, next to the resolver's locals: path (the branch
\* taken), tfc and prov (translateFieldsCached calls and provider attempts
\* made), writes (storage writes issued), ins (id of the row it inserted, 0 for
\* none), wfail (a storage operation of the run failed and the failure was not
\* propagated), after (the runs that had returned when this one started),
\* rows0 (the number of rows of its cluster and language when it started).
RowCount(tbl, c, l) ==
  Cardinality({i \in 1..Len(tbl) : tbl[i].cluster_id = c /\ tbl[i].lang = l})

Returned == {r \in 1..Len(runs) : runs[r].pc \in {"returned", "settled"}}

NewRun(c, l, via) ==
  [c |-> c, lang |-> l, via |-> via, pc |-> "selTarget",
   existingTarget |-> NoRow, existingBase |-> NoRow, pivot |-> NoRow,
   useRow |-> NoRow, translated |-> NoRow, out |-> Pending,
   path |-> "", tfc |-> 0, prov |-> 0, writes |-> 0,
   ins |-> 0, wfail |-> FALSE, after |-> Returned,
   rows0 |-> RowCount(cluster_ai, c, l)]

RunIds == 1..Len(runs)

CallIds == 1..Len(calls)

Finish(r, o) == [runs EXCEPT ![r].pc = "returned", ![r].out = o]

\* 1) select the current row of (cluster, targetLang); an error is thrown
SelectTarget(r) ==
  /\ runs[r].pc = "selTarget"
  /\ \E ok \in BOOLEAN :
       LET res == maybeSingle(CurrentOf(cluster_ai, runs[r].c, runs[r].lang))
           baseTarget == base(runs[r].lang)
       IN  IF ~ok \/ res.error
             THEN runs' = Finish(r, Rejected)
           ELSE runs' = [runs EXCEPT
                  ![r].existingTarget = res.data,
                  ![r].pc = IF res.data = NoRow /\ baseTarget # ""
                                 /\ <<baseTarget>> # runs[r].lang
                              THEN "selBase" ELSE "selCurrents"]
  /\ UNCHANGED <<cluster_ai, cache, _ensureInflight, calls>>
  /\ UNCHANGED notResolver

\* The resolver without the base-language fallback
SelectBaseNone(r) ==
  /\ runs[r].pc = "selBase"
  /\ runs' = [runs EXCEPT ![r].pc = "selCurrents"]
  /\ UNCHANGED <<cluster_ai, cache, _ensureInflight, calls>>
  /\ UNCHANGED notResolver

\* fallback to the base-language row; every failure is swallowed
SelectBase(r) ==
  /\ runs[r].pc = "selBase"
  /\ \E ok \in BOOLEAN :
       LET res == maybeSingle(
                    CurrentOf(cluster_ai, runs[r].c, <<base(runs[r].lang)>>))
       IN  runs' = [runs EXCEPT
             ![r].existingBase = IF ok THEN res.data ELSE NoRow,
             ![r].wfail = @ \/ ~ok,
             ![r].pc = "selCurrents"]
  /\ UNCHANGED <<cluster_ai, cache, _ensureInflight, calls>>
  /\ UNCHANGED notResolver

\* The pivot search without the fallback to currents[0]
PivotEnOnly(currents) == {p \in currents : p.lang = EnTag}

\* A pivot search that takes any current row
PivotAny(currents) == currents

\* currents.find((r) => r.lang === "en") || currents[0]; rows come back in no
\* fixed order
PivotChoices(currents) ==
  IF \E p \in currents : p.lang = EnTag
    THEN {p \in currents : p.lang = EnTag} ELSE currents

\* 2) select the current rows, pick the pivot, classify the target row
SelectCurrents(r) ==
  /\ runs[r].pc = "selCurrents"
  /\ \E ok \in BOOLEAN :
       LET currents == CurrentsOf(cluster_ai, runs[r].c)
           useRow == IF runs[r].existingTarget # NoRow
                       THEN runs[r].existingTarget ELSE runs[r].existingBase
       IN  IF ~ok THEN runs' = Finish(r, Rejected)
           ELSE IF PivotChoices(currents) = {}
             THEN runs' = Finish(r, ReturnedNull)
           ELSE \E p \in PivotChoices(currents) :
                  LET pivot == Selected(p) IN
                  IF useRow = NoRow
                    THEN runs' = [runs EXCEPT ![r].pivot = pivot,
                                    ![r].path = "new", ![r].pc = "trNew"]
                  ELSE IF ~IsFresh(useRow, pivot)
                    THEN runs' = [runs EXCEPT ![r].pivot = pivot,
                                    ![r].useRow = useRow,
                                    ![r].path = "stale", ![r].pc = "trStale"]
                  ELSE IF isOrigBody(useRow)
                            /\ base(useRow.lang) = base(runs[r].lang)
                    THEN runs' = [runs EXCEPT ![r].pivot = pivot,
                                    ![r].useRow = useRow,
                                    ![r].path = "orig", ![r].pc = "trOrig"]
                  ELSE runs' = [runs EXCEPT ![r].pivot = pivot,
                                  ![r].useRow = useRow, ![r].path = "fresh",
                                  ![r].pc = "returned",
                                  ![r].out = ReturnedAsIs(useRow)]
  /\ UNCHANGED <<cluster_ai, cache, _ensureInflight, calls>>
  /\ UNCHANGED notResolver

\* await translateNow(pivot, src, targetLang) on the three translating paths
Translate(r) ==
  /\ runs[r].pc \in {"trNew", "trStale", "trOrig"}
  /\ \E oc \in ProviderOutcomes :
       LET src == IF runs[r].pc = "trOrig" THEN AutoTag ELSE runs[r].pivot.lang
           res == translateNow(runs[r].pivot, src, runs[r].lang, oc, cache)
       IN  /\ cache' = res.cache
           /\ runs' = [runs EXCEPT
                 ![r].translated = res.row,
                 ![r].tfc = @ + res.called,
                 ![r].prov = @ + res.prov,
                 ![r].pc = CASE runs[r].pc = "trNew" -> "chkNew"
                             [] runs[r].pc = "trStale" -> "updStale"
                             [] OTHER -> "updOrig"]
  /\ UNCHANGED <<cluster_ai, _ensureInflight, calls>>
  /\ UNCHANGED notResolver

\* orig-body path: flip every current row of (cluster, targetLang); a throw is
\* swallowed
UpdateOrig(r) ==
  /\ runs[r].pc = "updOrig"
  /\ \E w \in WriteOutcomes :
       /\ cluster_ai' = IF w = "ok"
                          THEN UpdateByLang(cluster_ai, runs[r].c, runs[r].lang)
                          ELSE cluster_ai
       /\ runs' = [runs EXCEPT ![r].pc = "insOrig", ![r].writes = @ + 1,
                     ![r].wfail = @ \/ w # "ok"]
  /\ UNCHANGED <<cache, _ensureInflight, calls>>
  /\ UNCHANGED notResolver

\* stale path: mark the old row non-current by id; a throw reaches the outer
\* catch, which returns the old row
UpdateStale(r) ==
  /\ runs[r].pc = "updStale"
  /\ \E w \in WriteOutcomes :
       /\ cluster_ai' = IF w = "ok"
                          THEN UpdateById(cluster_ai, runs[r].useRow.id)
                          ELSE cluster_ai
       /\ runs' = IF w = "throw"
                    THEN [runs EXCEPT ![r].pc = "returned",
                            ![r].writes = @ + 1, ![r].wfail = TRUE,
                            ![r].out = ReturnedAsIs(runs[r].useRow)]
                    ELSE [runs EXCEPT ![r].pc = "insStale",
                            ![r].writes = @ + 1,
                            ![r].wfail = @ \/ w # "ok"]
  /\ UNCHANGED <<cache, _ensureInflight, calls>>
  /\ UNCHANGED notResolver

\* CheckAgain with the result of the second read ignored
CheckAgainIgnoresRow(r) ==
  /\ runs[r].pc = "chkNew"
  /\ runs' = [runs EXCEPT ![r].pc = "insNew"]
  /\ UNCHANGED <<cluster_ai, cache, _ensureInflight, calls>>
  /\ UNCHANGED notResolver

\* no-target path: read (cluster, targetLang, current) again before inserting
CheckAgain(r) ==
  /\ runs[r].pc = "chkNew"
  /\ \E w \in WriteOutcomes :
       LET res == maybeSingle(CurrentOf(cluster_ai, runs[r].c, runs[r].lang))
           checkAgain == IF w = "ok" THEN res.data ELSE NoRow
       IN  runs' = IF w = "throw" \/ checkAgain # NoRow
                     THEN [runs EXCEPT ![r].pc = "returned",
                             ![r].wfail = @ \/ w # "ok",
                             ![r].out = ReturnedTranslated(runs[r].translated,
                                                           runs[r].pivot)]
                     ELSE [runs EXCEPT ![r].pc = "insNew",
                             ![r].wfail = @ \/ w # "ok"]
  /\ UNCHANGED <<cluster_ai, cache, _ensureInflight, calls>>
  /\ UNCHANGED notResolver

InsertPc == {"insNew", "insStale", "insOrig"}

\* insert the translated row as current, with pivot_hash; a throw leads to the
\* second insert, without pivot_hash
Insert(r) ==
  /\ runs[r].pc \in InsertPc
  /\ \E w \in WriteOutcomes :
       /\ cluster_ai' = IF w = "ok"
                          THEN InsertRow(cluster_ai, runs[r].c, runs[r].lang,
                                         runs[r].translated,
                                         pivotSigOf(runs[r].pivot), TRUE)
                          ELSE cluster_ai
       /\ runs' = IF w = "throw"
                    THEN [runs EXCEPT ![r].writes = @ + 1, ![r].wfail = TRUE,
                            ![r].pc = CASE runs[r].pc = "insNew" -> "insNew2"
                                        [] runs[r].pc = "insStale" -> "insStale2"
                                        [] OTHER -> "insOrig2"]
                    ELSE [runs EXCEPT ![r].writes = @ + 1,
                            ![r].wfail = @ \/ w # "ok",
                            ![r].ins = IF w = "ok" THEN Len(cluster_ai) + 1
                                       ELSE 0,
                            ![r].pc = "returned",
                            ![r].out = ReturnedTranslated(runs[r].translated,
                                                          runs[r].pivot)]
  /\ UNCHANGED <<cache, _ensureInflight, calls>>
  /\ UNCHANGED notResolver

\* the second insert; when it throws too, the no-target path still returns the
\* translation, the stale and orig-body paths return the old row
InsertFallback(r) ==
  /\ runs[r].pc \in {"insNew2", "insStale2", "insOrig2"}
  /\ \E w \in WriteOutcomes :
       /\ cluster_ai' = IF w = "ok"
                          THEN InsertRow(cluster_ai, runs[r].c, runs[r].lang,
                                         runs[r].translated,
                                         pivotSigOf(runs[r].pivot), FALSE)
                          ELSE cluster_ai
       /\ runs' = [runs EXCEPT ![r].writes = @ + 1, ![r].pc = "returned",
                     ![r].wfail = @ \/ w # "ok",
                     ![r].ins = IF w = "ok" THEN Len(cluster_ai) + 1 ELSE 0,
                     ![r].out = IF w = "throw" /\ runs[r].pc # "insNew2"
                                  THEN ReturnedAsIs(runs[r].useRow)
                                  ELSE ReturnedTranslated(runs[r].translated,
                                                          runs[r].pivot)]
  /\ UNCHANGED <<cache, _ensureInflight, calls>>
  /\ UNCHANGED notResolver

-----------------------------------------------------------------------------
(* Entry points *)

NewCall(via, c, l, run) ==
  [via |-> via, c |-> c, lang |-> l, run |-> run, state |-> "waiting",
   got |-> Pending, status |-> 0]

\* Settle that removes the entry only when the resolver succeeded
SettleOnSuccess(r) ==
  /\ runs[r].via = "dedup"
  /\ runs[r].pc = "returned"
  /\ _ensureInflight' =
       IF runs[r].out.kind = "error" THEN _ensureInflight
       ELSE [_ensureInflight EXCEPT ![<<runs[r].c, runs[r].lang>>] = 0]
  /\ runs' = [runs EXCEPT ![r].pc = "settled"]
  /\ UNCHANGED <<cluster_ai, cache, calls>>
  /\ UNCHANGED notResolver

\* Dedup without the lookup of an existing entry: every call starts a run
DedupNoJoin(c, l) ==
  /\ Len(calls) < MaxCalls
  /\ runs' = Append(runs, NewRun(c, l, "dedup"))
  /\ _ensureInflight' = [_ensureInflight EXCEPT ![<<c, l>>] = Len(runs) + 1]
  /\ calls' = Append(calls, NewCall("dedup", c, l, Len(runs) + 1))
  /\ UNCHANGED <<cluster_ai, cache>>
  /\ UNCHANGED notResolver

\* ensureClusterTextInLangDedup(clusterId, targetLang), as called by a
\* /translate/batch worker or a background persistence job
Dedup(c, l) ==
  /\ Len(calls) < MaxCalls
  /\ LET key == <<c, l>>
         existing == _ensureInflight[key]
     IN  IF existing # 0
           THEN /\ calls' = Append(calls, NewCall("dedup", c, l, existing))
                /\ UNCHANGED <<runs, _ensureInflight>>
           ELSE /\ runs' = Append(runs, NewRun(c, l, "dedup"))
                /\ _ensureInflight' =
                     [_ensureInflight EXCEPT ![key] = Len(runs) + 1]
                /\ calls' = Append(calls, NewCall("dedup", c, l, Len(runs) + 1))
  /\ UNCHANGED <<cluster_ai, cache>>
  /\ UNCHANGED notResolver

\* .finally(() => _ensureInflight.delete(key)) once the resolver has returned
\* or thrown
Settle(r) ==
  /\ runs[r].via = "dedup"
  /\ runs[r].pc = "returned"
  /\ _ensureInflight' = [_ensureInflight EXCEPT ![<<runs[r].c, runs[r].lang>>] = 0]
  /\ runs' = [runs EXCEPT ![r].pc = "settled"]
  /\ UNCHANGED <<cluster_ai, cache, calls>>
  /\ UNCHANGED notResolver

\* GET /cluster/:id?lang=..: the cluster exists, the resolver is called
\* directly
ClusterGet(c, queryLang) ==
  /\ Len(calls) < MaxCalls
  /\ LET target == negotiateLanguage(queryLang, NoTag)
     IN  /\ runs' = Append(runs, NewRun(c, target, "direct"))
         /\ calls' = Append(calls, NewCall("cluster", c, target, Len(runs) + 1))
  /\ UNCHANGED <<cluster_ai, cache, _ensureInflight>>
  /\ UNCHANGED notResolver

IsSettled(r) ==
  \/ runs[r].via = "dedup" /\ runs[r].pc = "settled"
  \/ runs[r].via = "direct" /\ runs[r].pc = "returned"

\* The caller's await resumes with the outcome of the promise it holds.
\* GET /cluster/:id answers 404 for null, 500 for a failure, 200 otherwise.
Resume(k) ==
  /\ calls[k].state = "waiting"
  /\ IsSettled(calls[k].run)
  /\ LET o == runs[calls[k].run].out
     IN  calls' = [calls EXCEPT ![k].state = "done", ![k].got = o,
                     ![k].status = CASE calls[k].via # "cluster" -> 0
                                     [] o.kind = "null" -> 404
                                     [] o.kind = "error" -> 500
                                     [] OTHER -> 200]
  /\ UNCHANGED <<cluster_ai, cache, _ensureInflight, runs>>
  /\ UNCHANGED notResolver

-----------------------------------------------------------------------------
(* Initial storage: what ingestion and earlier processes may have left.     *)

T1 == Txt(1, "en")
T2 == Txt(2, "en")
T3 == Txt(3, "en")

DeTag == <<"de">>
SeedModel == ModelTag(NoSig, FALSE)

PivotEn == Row(1, "c1", EnTag, T1, T2, T3, TRUE, 2, SeedModel, NoSig)

\* the pivot before its last change
OldSig == <<Txt(4, "en"), T2, T3>>

\* A current German row next to the pivot, as an earlier process left it
DeRow(title, ph, at) ==
  Row(2, "c1", DeTag, title, Txt(2, "de"), Txt(3, "de"), TRUE, at,
      ModelTag(ph, FALSE), ph)

InitTables ==
  {<<>>,                                      \* no cluster_ai row for the cluster
   <<PivotEn>>,                               \* only the pivot
   \* translated from the current pivot, tagged with its signature
   <<PivotEn, DeRow(Txt(1, "de"), pivotSigOf(PivotEn), 1)>>,
   \* no signature, but not older than the pivot
   <<PivotEn, DeRow(Txt(1, "de"), NoSig, 2)>>,
   \* translated from the previous pivot, older than the pivot
   <<PivotEn, DeRow(Txt(4, "de"), OldSig, 1)>>,
   \* legacy row: the pivot title untranslated, white space aside
   <<PivotEn, DeRow([T1 EXCEPT !.ws = TRUE], pivotSigOf(PivotEn), 2)>>,
   \* written by the provider fallback
   <<PivotEn, DeRow(WithMarker(T1), pivotSigOf(PivotEn), 2)>>,
   \* the only row carries the original body
   <<Row(1, "c1", EnTag, Txt(1, "raw"), Txt(2, "raw"), Txt(3, "raw"),
         TRUE, 2, ModelTag(NoSig, TRUE), NoSig)>>,
   \* the only row is German
   <<Row(1, "c1", DeTag, Txt(1, "de"), Txt(2, "de"), Txt(3, "de"),
         TRUE, 2, SeedModel, NoSig)>>,
   \* a pivot without details
   <<Row(1, "c1", EnTag, T1, T2, EmptyText, TRUE, 2, SeedModel, NoSig)>>}

\* The parts of the process a specification does not exercise stay as they
\* are at process start
HarnessIdle == lru = [pc |-> "off"] /\ split = [pc |-> "off"]

TnIdle ==
  /\ tn = [pc |-> "idle"] /\ negotiated = <<>> /\ feed = [pc |-> "off"]
  /\ HarnessIdle

MtIdle ==
  /\ mtCache = {}
  /\ translations = {}
  /\ mtCalls = <<>>
  /\ translateMetrics = [providerCalls |-> 0, providerErrors |-> 0,
                         cacheHits |-> 0, cacheMisses |-> 0,
                         dbHits |-> 0, dbWrites |-> 0]
  /\ env = [HAS_GEMINI |-> FALSE, supabase |-> FALSE, BFF_TRANSLATION_TAG |-> "on"]

QueueIdle ==
  /\ PERSIST_MAX_CONCURRENCY = 1
  /\ _persistQueue = <<>>
  /\ _persistActive = 0
  /\ drains = 0
  /\ jobs = <<>>

BatchIdle ==
  /\ RATE_LIMIT_BATCH = [set |-> FALSE, v |-> 0]
  /\ _ipBuckets = <<>>
  /\ now = 0
  /\ requests = <<>>

ResolverIdle ==
  /\ cluster_ai = <<>>
  /\ cache = {}
  /\ _ensureInflight = [k \in Keys |-> 0]
  /\ runs = <<>>
  /\ calls = <<>>

Init ==
  /\ cluster_ai \in InitTables
  /\ cache = {}
  /\ _ensureInflight = [k \in Keys |-> 0]
  /\ runs = <<>>
  /\ calls = <<>>
  /\ TnIdle /\ MtIdle /\ QueueIdle /\ BatchIdle

Next ==
  \/ \E c \in ClusterIds, l \in TargetTags : Dedup(c, l)
  \/ \E c \in ClusterIds, q \in RequestTags : ClusterGet(c, q)
  \/ \E r \in RunIds : SelectTarget(r)
  \/ \E r \in RunIds : SelectBase(r)
  \/ \E r \in RunIds : SelectCurrents(r)
  \/ \E r \in RunIds : Translate(r)
  \/ \E r \in RunIds : UpdateOrig(r)
  \/ \E r \in RunIds : UpdateStale(r)
  \/ \E r \in RunIds : CheckAgain(r)
  \/ \E r \in RunIds : Insert(r)
  \/ \E r \in RunIds : InsertFallback(r)
  \/ \E r \in RunIds : Settle(r)
  \/ \E k \in CallIds : Resume(k)

Spec == Init /\ [][Next]_vars

\* Only the callers that go through the dedup map
NextDedup ==
  \/ \E c \in ClusterIds, l \in TargetTags : Dedup(c, l)
  \/ \E r \in RunIds : SelectTarget(r)
  \/ \E r \in RunIds : SelectBase(r)
  \/ \E r \in RunIds : SelectCurrents(r)
  \/ \E r \in RunIds : Translate(r)
  \/ \E r \in RunIds : UpdateOrig(r)
  \/ \E r \in RunIds : UpdateStale(r)
  \/ \E r \in RunIds : CheckAgain(r)
  \/ \E r \in RunIds : Insert(r)
  \/ \E r \in RunIds : InsertFallback(r)
  \/ \E r \in RunIds : Settle(r)
  \/ \E k \in CallIds : Resume(k)

SpecDedup == Init /\ [][NextDedup]_vars

-----------------------------------------------------------------------------
(* Claims *)

KeyOf(r) == <<runs[r].c, runs[r].lang>>

InProgress(r) == runs[r].pc \notin {"returned", "settled"}

Fields(row) == <<row.ai_title, row.ai_summary, row.ai_details>>

\* A dedup call is made in this step
DedupCallStep ==
  /\ Len(calls') = Len(calls) + 1
  /\ calls'[Len(calls')].via = "dedup"

\* C1: while a resolution for a key is in the registry, a further
\* ensureClusterTextInLangDedup call for that key gets the registered task and
\* starts no run; callers holding the same task observe the same outcome, which
\* is the outcome of that task's resolver run.
C1_JoinInFlight ==
  [][/\ DedupCallStep =>
         (LET n == calls'[Len(calls')]
              existing == _ensureInflight[<<n.c, n.lang>>]
          IN  existing # 0 => (runs' = runs /\ n.run = existing
                                /\ _ensureInflight' = _ensureInflight))
     /\ \A k1, k2 \in CallIds :
          (calls[k1].via = "dedup" /\ calls[k2].via = "dedup"
             /\ calls[k1].run = calls[k2].run
             /\ calls[k1].state = "done" /\ calls[k2].state = "done")
            => (calls[k1].got = calls[k2].got
                  /\ calls[k1].got = runs[calls[k1].run].out
                  /\ calls[k1].got.kind # "pending")]_vars

\* Two callers joined one task and both observed its value
C1_Witness ==
  \E k1, k2 \in CallIds :
     /\ k1 # k2
     /\ calls[k1].via = "dedup" /\ calls[k2].via = "dedup"
     /\ calls[k1].run = calls[k2].run
     /\ calls[k1].state = "done" /\ calls[k2].state = "done"
     /\ calls[k1].got.kind = "value"

\* C2: over every entry point, no two resolver invocations for the same
\* (cluster, language) key are in progress together.
C2_OneRunPerKey ==
  \A r1, r2 \in RunIds :
     (r1 # r2 /\ KeyOf(r1) = KeyOf(r2)) => ~(InProgress(r1) /\ InProgress(r2))

\* The task of dedup run r settles in this step
SettleStep(r) == runs[r].pc = "returned" /\ runs'[r].pc = "settled"

\* Rows of the run's cluster and language added since the run started
RowsAdded(r) == RowCount(cluster_ai, runs[r].c, runs[r].lang) - runs[r].rows0

\* translateNow hands the pivot back without calling the translator
PassThrough(pivot, l) ==
  pivot.lang = l \/ (~isOrigBody(pivot) /\ base(pivot.lang) = base(l))

CallersAgree ==
  \A k1, k2 \in CallIds :
     (calls[k1].run = calls[k2].run /\ calls[k1].state = "done"
        /\ calls[k2].state = "done")
       => Fields(calls[k1].got.row) = Fields(calls[k2].got.row)

\* C3 as stated: concurrent ensure calls for a cluster with a pivot and no
\* current row in the target language end with exactly one translator
\* invocation and exactly one inserted row for (cluster, lang).
C3_ExactlyOne ==
  [][\A r \in RunIds :
       (SettleStep(r) /\ runs[r].pivot # NoRow /\ runs[r].existingTarget = NoRow)
         => (runs[r].tfc = 1 /\ RowsAdded(r) = 1)]_vars

\* C3, amended: calls made through the dedup map while a resolution for the key
\* is in flight share one run; when that run found a pivot and no current row
\* in the target language nor in its base language, it makes at most one
\* translator invocation and adds at most one row for (cluster, lang): exactly
\* one invocation unless the pivot is passed through untranslated, exactly one
\* row when no storage operation of the run failed; all callers of the run
\* receive equal title, summary and details.
C3_AtMostOne ==
  [][/\ \A r \in RunIds :
         (SettleStep(r) /\ runs[r].pivot # NoRow
            /\ runs[r].existingTarget = NoRow /\ runs[r].existingBase = NoRow)
           => /\ runs[r].tfc <= 1
              /\ RowsAdded(r) \in {0, 1}
              /\ (runs[r].tfc = 1) = ~PassThrough(runs[r].pivot, runs[r].lang)
              /\ (~runs[r].wfail => RowsAdded(r) = 1)
     /\ CallersAgree]_vars

\* Two callers shared a run that translated and inserted one row
C3_Witness ==
  \E k1, k2 \in CallIds :
     /\ k1 # k2 /\ calls[k1].run = calls[k2].run
     /\ calls[k1].state = "done" /\ calls[k2].state = "done"
     /\ LET r == calls[k1].run
        IN  /\ runs[r].path = "new" /\ runs[r].tfc = 1 /\ runs[r].ins # 0
            /\ RowsAdded(r) = 1

\* C4: at most one current row per (cluster_id, lang)
C4_OneCurrentRow ==
  \A c \in ClusterIds, l \in TargetTags :
     Cardinality({i \in 1..Len(cluster_ai) :
                    /\ cluster_ai[i].cluster_id = c /\ cluster_ai[i].lang = l
                    /\ cluster_ai[i].is_current}) <= 1

\* C5: the registry entry of a key is removed when its resolution settles,
\* succeeded or failed: an entry always names a run of that key that has not
\* settled, and a dedup call never receives a settled task, so the first call
\* after settlement starts a new run.
C5_EntryRemoved ==
  [][/\ \A key \in Keys :
         _ensureInflight[key] # 0
           => /\ _ensureInflight[key] \in RunIds
              /\ KeyOf(_ensureInflight[key]) = key
              /\ runs[_ensureInflight[key]].pc # "settled"
     /\ DedupCallStep =>
          LET n == calls'[Len(calls')]
              allSettled == \A r \in RunIds : KeyOf(r) = <<n.c, n.lang>>
                                                 => runs[r].pc = "settled"
          IN  /\ runs'[n.run].pc # "settled"
              /\ (allSettled => (/\ n.run = Len(runs) + 1
                                 /\ Len(runs') = Len(runs) + 1
                                 /\ runs'[n.run].pc = "selTarget"))]_vars

\* A resolution failed and settled, and a later call for the key started a new
\* run
C5_Witness ==
  \E r1, r2 \in RunIds :
     /\ r1 < r2 /\ KeyOf(r1) = KeyOf(r2)
     /\ runs[r1].via = "dedup" /\ runs[r2].via = "dedup"
     /\ runs[r1].pc = "settled" /\ runs[r1].out.kind = "error"
     /\ _ensureInflight[KeyOf(r1)] = r2

Done(r) == runs[r].pc \in {"returned", "settled"}

\* No storage operation of run r answered with an error or threw
NoStorageFailure(r) == ~runs[r].wfail /\ runs[r].out.kind # "error"

\* r2 was called after r1 had returned, for the same key, no other resolver
\* invocation has been made, and storage served both without failure
Successive(r1, r2) ==
  /\ r1 \in runs[r2].after /\ KeyOf(r1) = KeyOf(r2) /\ Len(runs) = 2
  /\ Done(r2) /\ runs[r1].out.kind = "value"
  /\ NoStorageFailure(r1) /\ NoStorageFailure(r2)

SecondServedFromRow(r1, r2) ==
  /\ runs[r2].tfc = 0 /\ runs[r2].prov = 0 /\ runs[r2].writes = 0
  /\ runs[r2].out.kind = "value"
  /\ runs[r2].out.row = runs[r2].useRow
  /\ runs[r1].ins # 0 => runs[r2].useRow.id = runs[r1].ins
  /\ Fields(runs[r2].out.row) = Fields(runs[r1].out.row)

\* C6 as stated: of two ensure calls in succession (storage working), the
\* second makes no provider call, is served from the row the first persisted
\* and returns the first call's title, summary and details.
C6_Idempotent ==
  \A r1, r2 \in RunIds : Successive(r1, r2) => SecondServedFromRow(r1, r2)

\* The language of the row that holds the first call's result
ResultRowLang(r) == IF runs[r].ins # 0 THEN runs[r].lang ELSE runs[r].out.row.lang

\* The first call's result is a usable translation: no stub marker, and no
\* field equal (white space aside) to the pivot's, unless in the pivot's language
UsableResult(r) ==
  LET o == runs[r].out.row
      p == runs[r].pivot
  IN  /\ ~o.ai_title.mark /\ ~o.ai_summary.mark /\ ~o.ai_details.mark
      /\ \/ ResultRowLang(r) = p.lang
         \/ /\ [o.ai_title EXCEPT !.ws = FALSE] # [p.ai_title EXCEPT !.ws = FALSE]
            /\ [o.ai_summary EXCEPT !.ws = FALSE] # [p.ai_summary EXCEPT !.ws = FALSE]
            /\ [o.ai_details EXCEPT !.ws = FALSE] # [p.ai_details EXCEPT !.ws = FALSE]

\* C6, amended: of two ensure calls in succession with an unchanged pivot and
\* no failed storage operation, where the first returned content without stub
\* marker and with no field equal to the pivot's (unless in the pivot's own
\* language), the second makes no translator or provider call and no storage
\* write, is served from the current row (the one the first call inserted, when
\* it inserted one) and returns equal title, summary and details.
C6_IdempotentWhenUsable ==
  \A r1, r2 \in RunIds :
     (Successive(r1, r2) /\ UsableResult(r1)) => SecondServedFromRow(r1, r2)

\* The first call translated and inserted a row, the second one returned it
C6_Witness ==
  \E r1, r2 \in RunIds :
     /\ Successive(r1, r2) /\ UsableResult(r1)
     /\ runs[r1].tfc = 1 /\ runs[r1].ins # 0
     /\ runs[r2].path = "fresh" /\ runs[r2].useRow.id = runs[r1].ins

\* Run r completes (returns or throws) in this step
ReturnStep(r) == ~Done(r) /\ runs'[r].pc = "returned"

\* The target row the run read is stale as C7 describes it
StaleTarget(r) ==
  /\ runs[r].existingTarget # NoRow /\ runs[r].pivot # NoRow
  /\ runs[r].existingTarget.model.ph # pivotSigOf(runs[r].pivot)
  /\ runs[r].existingTarget.created_at < runs[r].pivot.created_at

StaleSwapDone(r) ==
  LET old == runs[r].existingTarget.id
      new == Len(cluster_ai')
      o == runs'[r].out
  IN  /\ o.kind = "value" /\ o.is_translated
      /\ o.row = runs[r].translated
      /\ runs[r].tfc = IF PassThrough(runs[r].pivot, runs[r].lang) THEN 0 ELSE 1
      /\ ~cluster_ai'[old].is_current
      /\ Len(cluster_ai') = Len(cluster_ai) + 1
      /\ cluster_ai'[new].is_current
      /\ cluster_ai'[new].cluster_id = runs[r].c
      /\ cluster_ai'[new].lang = runs[r].lang
      /\ cluster_ai'[new].model.ph = pivotSigOf(runs[r].pivot)
      /\ Fields(cluster_ai'[new]) = Fields(o.row)

AsIs(r) ==
  /\ runs[r].out.kind = "value" /\ runs[r].out.row = runs[r].useRow
  /\ runs[r].tfc = 0 /\ runs[r].writes = 0

\* The run read a current row for its language (or base language) and a pivot,
\* and has completed
ReadRow(r) == Done(r) /\ runs[r].useRow # NoRow /\ runs[r].pivot # NoRow

SigOrNewer(row, pivot) ==
  \/ row.model.ph = pivotSigOf(pivot)
  \/ row.created_at >= pivot.created_at

HasMarker(row) == row.ai_title.mark \/ row.ai_summary.mark \/ row.ai_details.mark

\* C8 as stated: the existing current row is returned as-is, with no translator
\* call and no write, iff (its signature equals the pivot signature or it is
\* not older than the pivot) and no field equals the pivot's field while the
\* languages differ and no field holds the stub marker.
C8_FreshIff ==
  \A r \in RunIds :
     ReadRow(r) =>
       (AsIs(r) <=>
          LET row == runs[r].useRow
              pivot == runs[r].pivot
          IN  /\ SigOrNewer(row, pivot)
              /\ ~(row.lang # pivot.lang
                     /\ \E i \in 1..3 : Fields(row)[i] = Fields(pivot)[i])
              /\ ~HasMarker(row))

\* C8, amended: the same iff with the fields compared after collapsing and
\* trimming white space, and with the further condition that the row is not an
\* original-body row (#body=orig) in the target's base language.
C8_FreshIffNormalised ==
  \A r \in RunIds :
     ReadRow(r) =>
       (AsIs(r) <=>
          LET row == runs[r].useRow
              pivot == runs[r].pivot
          IN  /\ SigOrNewer(row, pivot)
              /\ ~(row.lang # pivot.lang
                     /\ \E i \in 1..3 :
                          [Fields(row)[i] EXCEPT !.ws = FALSE]
                            = [Fields(pivot)[i] EXCEPT !.ws = FALSE])
              /\ ~HasMarker(row)
              /\ ~(row.model.orig /\ base(row.lang) = base(runs[r].lang)))

\* A translated row was found fresh against a pivot in another language and
\* returned as it is
C8_Witness ==
  \E r \in RunIds :
     /\ ReadRow(r) /\ AsIs(r)
     /\ runs[r].useRow.lang # runs[r].pivot.lang
     /\ runs[r].useRow.model.ph = pivotSigOf(runs[r].pivot)

\* C9: a fresh row's result has isTranslated = (target base language differs
\* from the pivot's base language), and translatedFrom is the pivot language
\* exactly when isTranslated.
C9_FreshFlags ==
  \A r \in RunIds :
     (ReadRow(r) /\ AsIs(r)) =>
       /\ runs[r].out.is_translated
            = (base(runs[r].lang) # base(runs[r].pivot.lang))
       /\ runs[r].out.translated_from
            = (IF runs[r].out.is_translated THEN runs[r].pivot.lang ELSE NoTag)

\* The cluster has no current row in any language
NoCurrentRow(tbl, c) ==
  \A i \in 1..Len(tbl) : ~(tbl[i].cluster_id = c /\ tbl[i].is_current)

NullIffNoCurrent(r) ==
  /\ (runs'[r].out.kind = "null")
       <=> (runs[r].pc \in {"selTarget", "selCurrents"}
              /\ NoCurrentRow(cluster_ai, runs[r].c))
  /\ runs'[r].out.kind = "null"
       => (runs'[r].tfc = 0 /\ runs'[r].writes = 0 /\ cluster_ai' = cluster_ai)

\* GET /cluster/:id answers 404 for a null result, and only then
NullIs404 ==
  \A k \in CallIds :
     (calls'[k].via = "cluster" /\ calls'[k].state = "done")
       => ((calls'[k].status = 404) <=> (calls'[k].got.kind = "null"))

C11_TranslationSurvivesWriteFailure ==
  [][\A r \in RunIds :
       (ReturnStep(r) /\ runs[r].translated # NoRow /\ runs'[r].wfail
          /\ runs'[r].writes >= 1)
         => runs'[r].out
              = ReturnedTranslated(runs[r].translated, runs[r].pivot)]_vars

-----------------------------------------------------------------------------
(* translateNow on its own: one call with any pivot and any pair of tags    *)

TnPivots ==
  {PivotEn,
   Row(1, "c1", EnTag, Txt(1, "raw"), Txt(2, "raw"), Txt(3, "raw"),
       TRUE, 2, ModelTag(NoSig, TRUE), NoSig),
   Row(1, "c1", DeTag, Txt(1, "de"), Txt(2, "de"), Txt(3, "de"),
       TRUE, 2, SeedModel, NoSig),
   Row(1, "c1", EnTag, T1, T2, EmptyText, TRUE, 2, SeedModel, NoSig)}

TnTags ==
  {<<"en">>, <<"en", "us">>, <<"EN">>, <<"de">>, <<"de", "CH">>, AutoTag, NoTag}

InitTranslateNow ==
  /\ \E p \in TnPivots, s \in TnTags, d \in TnTags :
       tn = [pc |-> "called", pivot |-> p, src |-> s, dst |-> d]
  /\ negotiated = <<>> /\ feed = [pc |-> "off"] /\ HarnessIdle
  /\ ResolverIdle /\ MtIdle /\ QueueIdle /\ BatchIdle

\* const translated = await translateNow(pivot, src, dst)
TranslateNowCall ==
  /\ tn.pc = "called"
  /\ \E oc \in ProviderOutcomes :
       LET res == translateNow(tn.pivot, tn.src, tn.dst, oc, cache)
       IN  /\ tn' = [pc |-> "returned", pivot |-> tn.pivot, src |-> tn.src,
                     dst |-> tn.dst, row |-> res.row, called |-> res.called,
                     prov |-> res.prov]
           /\ cache' = res.cache
  /\ UNCHANGED <<cluster_ai, _ensureInflight, runs, calls, negotiated, feed, lru, split>>
  /\ UNCHANGED <<mtVars, queueVars, batchVars>>

NextTranslateNow == TranslateNowCall

SpecTranslateNow == InitTranslateNow /\ [][NextTranslateNow]_vars

\* The two tags name the same base language
SameBase(src, dst) ==
  /\ src # NoTag /\ dst # NoTag
  /\ ToLowerCase(src[1]) = ToLowerCase(dst[1])

\* C14: translateNow with src and dst of the same base language and a pivot
\* that is not an original-body row returns the pivot's title, summary and
\* details unchanged and calls neither the translator nor the provider.
C14_SameBaseUnchanged ==
  (tn.pc = "returned" /\ SameBase(tn.src, tn.dst) /\ ~tn.pivot.model.orig)
    => /\ Fields(tn.row) = Fields(tn.pivot)
       /\ tn.called = 0 /\ tn.prov = 0
       /\ cache = {}

\* translateNow(pivot, en, en-US) has returned the pivot's fields
C14_Witness ==
  /\ tn.pc = "returned"
  /\ tn.src = <<"en">> /\ tn.dst = <<"en", "us">>
  /\ ~tn.pivot.model.orig
  /\ Fields(tn.row) = Fields(tn.pivot) /\ tn.called = 0

-----------------------------------------------------------------------------
(* A regional variant of the only current row's language *)

DeChTag == <<"de", "CH">>

\* The cluster's only current row was German when the first resolver
\* invocation, for de-CH, started; that invocation has completed
RegionalOfOnlyRow(r) ==
  /\ r = 1 /\ Len(runs) = 1 /\ Done(r)
  /\ runs[r].lang = DeChTag
  /\ Len(cluster_ai) >= 1 /\ cluster_ai[1].lang = DeTag
  /\ runs[r].out.kind # "error"

MaxJobs == 4
MaxConcurrency == 2

JobIds == 1..MaxJobs

InitQueue ==
  \* parseInt(process.env.PERSIST_MAX_CONCURRENCY || "1"), the variable unset
  \* or set to a positive integer
  /\ \E set \in BOOLEAN, e \in 1..MaxConcurrency :
       PERSIST_MAX_CONCURRENCY = IF set THEN e ELSE 1
  /\ _persistQueue = <<>>
  /\ _persistActive = 0
  /\ drains = 0
  /\ jobs = <<>>
  /\ ResolverIdle /\ TnIdle /\ MtIdle /\ BatchIdle

\* _persistQueue.push(fn); setImmediate(_drainPersistQueue)
_enqueuePersist ==
  /\ Len(jobs) < MaxJobs
  /\ jobs' = Append(jobs, [st |-> "queued", warned |-> FALSE])
  /\ _persistQueue' = Append(_persistQueue, Len(jobs) + 1)
  /\ drains' = drains + 1
  /\ UNCHANGED <<PERSIST_MAX_CONCURRENCY, _persistActive>>
  /\ UNCHANGED <<resolverVars, tnVars, mtVars, batchVars>>

\* A drain that starts the head job whatever the number of running jobs
DrainNoLimit ==
  /\ drains > 0
  /\ drains' = drains - 1
  /\ IF _persistQueue = <<>>
       THEN UNCHANGED <<_persistQueue, _persistActive, jobs>>
       ELSE /\ _persistQueue' = Tail(_persistQueue)
            /\ _persistActive' = _persistActive + 1
            /\ jobs' = [jobs EXCEPT ![Head(_persistQueue)].st = "running"]
  /\ UNCHANGED PERSIST_MAX_CONCURRENCY
  /\ UNCHANGED <<resolverVars, tnVars, mtVars, batchVars>>

\* A drain that starts the job enqueued last
DrainNewestFirst ==
  /\ drains > 0
  /\ drains' = drains - 1
  /\ IF _persistActive >= PERSIST_MAX_CONCURRENCY \/ _persistQueue = <<>>
       THEN UNCHANGED <<_persistQueue, _persistActive, jobs>>
       ELSE /\ _persistQueue' = SubSeq(_persistQueue, 1, Len(_persistQueue) - 1)
            /\ _persistActive' = _persistActive + 1
            /\ jobs' = [jobs EXCEPT ![_persistQueue[Len(_persistQueue)]].st = "running"]
  /\ UNCHANGED PERSIST_MAX_CONCURRENCY
  /\ UNCHANGED <<resolverVars, tnVars, mtVars, batchVars>>

\* A scheduled _drainPersistQueue callback runs up to its await: it returns
\* at the concurrency limit or on an empty queue, else it shifts the head
\* job, counts it active and calls it.
_drainPersistQueue ==
  /\ drains > 0
  /\ drains' = drains - 1
  /\ IF _persistActive >= PERSIST_MAX_CONCURRENCY \/ _persistQueue = <<>>
       THEN UNCHANGED <<_persistQueue, _persistActive, jobs>>
       ELSE /\ _persistQueue' = Tail(_persistQueue)
            /\ _persistActive' = _persistActive + 1
            /\ jobs' = [jobs EXCEPT ![Head(_persistQueue)].st = "running"]
  /\ UNCHANGED PERSIST_MAX_CONCURRENCY
  /\ UNCHANGED <<resolverVars, tnVars, mtVars, batchVars>>

\* A job's end that keeps the slot of a job that failed
JobSettleKeepSlot(j) ==
  /\ j \in DOMAIN jobs
  /\ jobs[j].st = "running"
  /\ \E ok \in BOOLEAN :
       /\ jobs' = [jobs EXCEPT ![j] = [st |-> IF ok THEN "done" ELSE "failed",
                                       warned |-> ~ok]]
       /\ _persistActive' = IF ok THEN _persistActive - 1 ELSE _persistActive
  /\ drains' = IF _persistQueue # <<>> THEN drains + 1 ELSE drains
  /\ UNCHANGED <<PERSIST_MAX_CONCURRENCY, _persistQueue>>
  /\ UNCHANGED <<resolverVars, tnVars, mtVars, batchVars>>

\* The rest of _drainPersistQueue after await job(): the job resolved, or it
\* threw or rejected and the catch warns "persist job failed"; the finally
\* releases the slot and, with jobs left, schedules a drain in 50 ms.
JobSettle(j) ==
  /\ j \in DOMAIN jobs
  /\ jobs[j].st = "running"
  /\ \E ok \in BOOLEAN :
       jobs' = [jobs EXCEPT ![j] = [st |-> IF ok THEN "done" ELSE "failed",
                                    warned |-> ~ok]]
  /\ _persistActive' = _persistActive - 1
  /\ drains' = IF _persistQueue # <<>> THEN drains + 1 ELSE drains
  /\ UNCHANGED <<PERSIST_MAX_CONCURRENCY, _persistQueue>>
  /\ UNCHANGED <<resolverVars, tnVars, mtVars, batchVars>>

NextQueue ==
  \/ _enqueuePersist
  \/ _drainPersistQueue
  \/ \E j \in JobIds : JobSettle(j)

SpecQueue == InitQueue /\ [][NextQueue]_vars

\* Timers fire and every started job settles.
SpecQueueFair ==
  /\ SpecQueue
  /\ WF_vars(_drainPersistQueue)
  /\ \A j \in JobIds : WF_vars(JobSettle(j))

(***************************************************************************)
(* C19                                                                     *)
(***************************************************************************)
\* C19: in every reachable state of the queue the number of jobs running at
\* once is between 0 and PERSIST_MAX_CONCURRENCY, and it is the number of
\* jobs that were started and have not settled.
C19_ActiveWithinLimit ==
  /\ _persistActive \in 0..PERSIST_MAX_CONCURRENCY
  /\ _persistActive = Cardinality({j \in DOMAIN jobs : jobs[j].st = "running"})

\* The limit is reached while another job waits and a drain is scheduled.
C19_Witness ==
  /\ PERSIST_MAX_CONCURRENCY >= 1
  /\ _persistActive = PERSIST_MAX_CONCURRENCY
  /\ _persistQueue # <<>>
  /\ drains > 0

(***************************************************************************)
(* C20                                                                     *)
(***************************************************************************)
StatusOf(j) == IF j \in DOMAIN jobs THEN jobs[j].st ELSE "none"

\* C20: a job that throws or rejects is logged and releases its slot, and
\* every job still queued when it failed is started later, and runs to
\* its end.
C20_FailureDoesNotBlock ==
  /\ [][\A j \in DOMAIN jobs :
         (jobs[j].st = "running" /\ jobs'[j].st = "failed")
           => /\ jobs'[j].warned
              /\ _persistActive' = _persistActive - 1]_vars
  /\ \A j \in JobIds : \A k \in JobIds :
       (StatusOf(j) = "failed" /\ StatusOf(k) = "queued")
         ~> (StatusOf(k) \in {"done", "failed"})

\* A job failed while another was queued behind it, and that one has run.
C20_Witness ==
  \E j \in DOMAIN jobs : \E k \in DOMAIN jobs :
    /\ j < k
    /\ jobs[j].st = "failed" /\ jobs[j].warned
    /\ jobs[k].st = "done"
    /\ PERSIST_MAX_CONCURRENCY = 1

(***************************************************************************)
(* POST /translate/batch and its per-IP limiter                            *)
(***************************************************************************)
MaxRequests == 2
MaxLimiterRequests == 3
MaxNow == 3
MaxLimit == 2

\* The window length, in clock ticks of half an hour
hourMs == 2

\* The cap of .slice(0, 20), scaled
MAX_BATCH == 3

Ips == {"ipA", "ipB"}

\* Request bodies {ids, clusterIds}; "" is an id that filter(Boolean) drops
Bodies ==
  { [ids |-> <<>>, clusterIds |-> <<>>],
    [ids |-> <<"">>, clusterIds |-> <<>>],
    [ids |-> <<"c1">>, clusterIds |-> <<>>],
    [ids |-> <<"c1", "c1">>, clusterIds |-> <<"c2">>],
    [ids |-> <<>>, clusterIds |-> <<"c2", "", "c1", "c2">>],
    [ids |-> <<"c1", "c2", "c1", "c3", "c4">>, clusterIds |-> <<>>] }

\* What withTimeout(ensureClusterTextInLangDedup(id, target), perItemMs)
\* settles with: a row, null, a rejection of the resolver, or the timeout
ItemOutcomes == {"row", "null", "throw", "timeout"}

\* parseInt(process.env.RATE_LIMIT_BATCH || "60"), invalid values give 60
_rateLimitBatchLimit ==
  IF RATE_LIMIT_BATCH.set /\ RATE_LIMIT_BATCH.v >= 0
    THEN RATE_LIMIT_BATCH.v
    ELSE 60

\* A limiter that never refuses
TakeTokenNoCheck(ip) ==
  LET rec0 == IF ip \in DOMAIN _ipBuckets
                THEN _ipBuckets[ip]
                ELSE [windowStart |-> now, tokens |-> _rateLimitBatchLimit]
  IN  [ok |-> TRUE, rec |-> [rec0 EXCEPT !.tokens = @ - 1]]

\* _takeToken(ip): the verdict and the record stored for the ip
_takeToken(ip) ==
  LET rec0 == IF ip \in DOMAIN _ipBuckets
                THEN _ipBuckets[ip]
                ELSE [windowStart |-> now, tokens |-> _rateLimitBatchLimit]
      rec1 == IF now - rec0.windowStart >= hourMs
                THEN [windowStart |-> now, tokens |-> _rateLimitBatchLimit]
                ELSE rec0
  IN  IF rec1.tokens <= 0
        THEN [ok |-> FALSE, rec |-> rec1]
        ELSE [ok |-> TRUE, rec |-> [rec1 EXCEPT !.tokens = @ - 1]]

\* xs.filter(Boolean)
RECURSIVE FilterBoolean(_)
FilterBoolean(xs) ==
  IF xs = <<>> THEN <<>>
  ELSE IF Head(xs) = "" THEN FilterBoolean(Tail(xs))
  ELSE <<Head(xs)>> \o FilterBoolean(Tail(xs))

\* A copy of the list that keeps every id, duplicates too
RECURSIVE KeepDuplicates(_)
KeepDuplicates(xs) ==
  IF xs = <<>> THEN <<>> ELSE <<Head(xs)>> \o KeepDuplicates(Tail(xs))

\* [...new Set(xs)]: first occurrences, in insertion order
RECURSIVE SetOrder(_)
SetOrder(xs) ==
  IF xs = <<>> THEN <<>>
  ELSE LET init == SetOrder(SubSeq(xs, 1, Len(xs) - 1))
           last == xs[Len(xs)]
       IN  IF \E i \in DOMAIN init : init[i] = last
             THEN init
             ELSE Append(init, last)

\* [...new Set(ids)].slice(0, 20)
uniqueIds(ids) ==
  LET u == SetOrder(ids)
  IN  SubSeq(u, 1, IF Len(u) < MAX_BATCH THEN Len(u) ELSE MAX_BATCH)

\* Math.max(1, Math.min(conc, 12))
Workers(conc) ==
  LET m == IF conc < 12 THEN conc ELSE 12
  IN  IF m > 1 THEN m ELSE 1

InitBatch ==
  /\ \E set \in BOOLEAN, v \in -1..MaxLimit :
       RATE_LIMIT_BATCH = [set |-> set, v |-> IF set THEN v ELSE 0]
  /\ _ipBuckets = <<>>
  /\ now = 0
  /\ requests = <<>>
  /\ ResolverIdle /\ TnIdle /\ MtIdle /\ QueueIdle

\* Date.now() moves on
Tick ==
  /\ now < MaxNow
  /\ now' = now + 1
  /\ UNCHANGED <<RATE_LIMIT_BATCH, _ipBuckets, requests>>
  /\ UNCHANGED <<resolverVars, tnVars, mtVars, queueVars>>

\* The handler up to its first await: the limiter, the id list, and the
\* workers, each of which shifts an id and calls the resolver for it.
BatchRequest(ip, body, conc) ==
  /\ LET tk == _takeToken(ip)
         ids == FilterBoolean(IF Len(body.ids) > 0 THEN body.ids
                                                   ELSE body.clusterIds)
         u == uniqueIds(ids)
         n == IF Workers(conc) < Len(u) THEN Workers(conc) ELSE Len(u)
         req == [ip |-> ip, at |-> now, win |-> tk.rec.windowStart,
                 body |-> body, status |-> 0, error |-> "",
                 queue |-> <<>>, inflight |-> {}, called |-> <<>>,
                 outcomes |-> {}, results |-> <<>>, failed |-> <<>>]
     IN  /\ _ipBuckets' = [x \in DOMAIN _ipBuckets \cup {ip} |->
                             IF x = ip THEN tk.rec ELSE _ipBuckets[x]]
         /\ requests' = Append(requests,
              IF ~tk.ok
                THEN [req EXCEPT !.status = 429, !.error = "rate_limited"]
              ELSE IF ids = <<>>
                THEN [req EXCEPT !.status = 200]
              ELSE [req EXCEPT !.queue = SubSeq(u, n + 1, Len(u)),
                               !.inflight = {u[i] : i \in 1..n},
                               !.called = SubSeq(u, 1, n)])
  /\ UNCHANGED <<RATE_LIMIT_BATCH, now>>
  /\ UNCHANGED <<resolverVars, tnVars, mtVars, queueVars>>

\* A worker whose failed item is dropped instead of pushed to failed
ItemSettleDropFailed(i, id, oc) ==
  /\ i \in DOMAIN requests
  /\ requests[i].status = 0
  /\ id \in requests[i].inflight
  /\ LET r == requests[i]
         more == r.queue # <<>>
     IN  requests' = [requests EXCEPT ![i] =
           [r EXCEPT
              !.outcomes = @ \cup {<<id, oc>>},
              !.results = IF oc = "row" THEN Append(@, id) ELSE @,
              !.inflight = (@ \ {id}) \cup (IF more THEN {Head(r.queue)} ELSE {}),
              !.called = IF more THEN Append(@, Head(r.queue)) ELSE @,
              !.queue = IF more THEN Tail(@) ELSE @]]
  /\ UNCHANGED <<RATE_LIMIT_BATCH, _ipBuckets, now>>
  /\ UNCHANGED <<resolverVars, tnVars, mtVars, queueVars>>

\* A worker's await settles: a row goes to results; null, a rejection or
\* the timeout send the id to failed; the worker then shifts the next id
\* and calls the resolver for it, or ends on an empty queue.
ItemSettle(i, id, oc) ==
  /\ i \in DOMAIN requests
  /\ requests[i].status = 0
  /\ id \in requests[i].inflight
  /\ LET r == requests[i]
         more == r.queue # <<>>
     IN  requests' = [requests EXCEPT ![i] =
           [r EXCEPT
              !.outcomes = @ \cup {<<id, oc>>},
              !.results = IF oc = "row" THEN Append(@, id) ELSE @,
              !.failed = IF oc = "row" THEN @ ELSE Append(@, id),
              !.inflight = (@ \ {id}) \cup (IF more THEN {Head(r.queue)} ELSE {}),
              !.called = IF more THEN Append(@, Head(r.queue)) ELSE @,
              !.queue = IF more THEN Tail(@) ELSE @]]
  /\ UNCHANGED <<RATE_LIMIT_BATCH, _ipBuckets, now>>
  /\ UNCHANGED <<resolverVars, tnVars, mtVars, queueVars>>

\* await Promise.all(workers) resolves; res.json({results, failed})
BatchRespond(i) ==
  /\ i \in DOMAIN requests
  /\ requests[i].status = 0
  /\ requests[i].inflight = {}
  /\ requests' = [requests EXCEPT ![i].status = 200]
  /\ UNCHANGED <<RATE_LIMIT_BATCH, _ipBuckets, now>>
  /\ UNCHANGED <<resolverVars, tnVars, mtVars, queueVars>>

BatchSettle ==
  \/ \E i \in DOMAIN requests, id \in {"c1", "c2", "c3", "c4"}, oc \in ItemOutcomes :
       ItemSettle(i, id, oc)
  \/ \E i \in DOMAIN requests : BatchRespond(i)

NextBatch ==
  \/ /\ Len(requests) < MaxRequests
     /\ \E ip \in Ips, body \in Bodies, conc \in {0, 2, 6} :
          BatchRequest(ip, body, conc)
  \/ BatchSettle

SpecBatch == InitBatch /\ [][NextBatch]_vars

\* Many short requests against the limiter
NextLimiter ==
  \/ Tick
  \/ /\ Len(requests) < MaxLimiterRequests
     /\ \E ip \in Ips, body \in {b \in Bodies : Len(b.ids) + Len(b.clusterIds) <= 1} :
          BatchRequest(ip, body, 6)
  \/ BatchSettle

SpecLimiter == InitBatch /\ [][NextLimiter]_vars

(***************************************************************************)
(* C16                                                                     *)
(***************************************************************************)
SeqSet(xs) == {xs[k] : k \in DOMAIN xs}

NoRepeat(xs) == Len(xs) = Cardinality(SeqSet(xs))

\* The distinct ids of a request body that filter(Boolean) keeps
BodyIds(b) == SeqSet(IF Len(b.ids) > 0 THEN b.ids ELSE b.clusterIds) \ {""}

\* The number of unique ids a request dispatches
UniqueCount(b) ==
  IF Cardinality(BodyIds(b)) < MAX_BATCH THEN Cardinality(BodyIds(b)) ELSE MAX_BATCH

\* C16: a batch request is never failed for the failure of items: an id
\* whose resolution gave a row is in results, an id whose resolution gave
\* null, rejected or timed out is in failed, no id is in both or twice, and
\* the response holds every dispatched id, results.length + failed.length
\* being the number of unique ids of the request.
C16_EveryIdInOneList ==
  \A i \in DOMAIN requests :
    LET r == requests[i]
        R == SeqSet(r.results)
        F == SeqSet(r.failed)
    IN  /\ r.status \in {0, 200, 429}
        /\ NoRepeat(r.results) /\ NoRepeat(r.failed) /\ R \cap F = {}
        /\ \A o \in r.outcomes :
             /\ o[2] = "row" => o[1] \in R
             /\ o[2] \in {"null", "throw", "timeout"} => o[1] \in F
        /\ \A id \in R : <<id, "row">> \in r.outcomes
        /\ R \cup F = {o[1] : o \in r.outcomes}
        /\ SeqSet(r.called) = R \cup F \cup r.inflight
        /\ r.status = 200 =>
             /\ r.inflight = {}
             /\ R \cup F = SeqSet(r.called)
             /\ Len(r.results) + Len(r.failed) = UniqueCount(r.body)

\* A response with a resolved id, a timed-out id and an id resolved to null
C16_Witness ==
  \E i \in DOMAIN requests :
    /\ requests[i].status = 200
    /\ Len(requests[i].results) >= 1
    /\ \E a \in SeqSet(requests[i].failed), b \in SeqSet(requests[i].failed) :
         /\ <<a, "timeout">> \in requests[i].outcomes
         /\ <<b, "null">> \in requests[i].outcomes

(***************************************************************************)
(* C17                                                                     *)
(***************************************************************************)
\* C17: within one request the resolver is called at most once per distinct
\* id, only for ids of the request, and for at most the maximum batch size
\* of ids; a request that passes the limiter with an empty id list answers
\* {results: [], failed: []} at once, with no resolver call (and so no
\* provider call).
C17_DedupedAndCapped ==
  \A i \in DOMAIN requests :
    LET r == requests[i]
    IN  /\ NoRepeat(r.called)
        /\ Len(r.called) <= MAX_BATCH
        /\ SeqSet(r.called) \subseteq BodyIds(r.body)
        /\ (r.status # 429 /\ BodyIds(r.body) = {}) =>
             /\ r.status = 200
             /\ r.results = <<>> /\ r.failed = <<>>
             /\ r.called = <<>> /\ r.inflight = {}

\* A request with repeated ids and more distinct ids than the cap has been
\* answered, and a request with an empty list has been answered.
C17_Witness ==
  \E i \in DOMAIN requests, j \in DOMAIN requests :
    /\ requests[i].status = 200
    /\ Cardinality(BodyIds(requests[i].body)) > MAX_BATCH
    /\ Len(requests[i].body.ids) > Cardinality(SeqSet(requests[i].body.ids))
    /\ Len(requests[i].called) = MAX_BATCH
    /\ requests[j].status = 200
    /\ requests[j].body.ids = <<>> /\ requests[j].body.clusterIds = <<>>
    /\ requests[j].called = <<>>

(***************************************************************************)
(* C18                                                                     *)
(***************************************************************************)
\* The requests before request i that its ip had admitted in i's window
AdmittedBefore(i) ==
  {j \in 1..(i - 1) : /\ requests[j].ip = requests[i].ip
                      /\ requests[j].win = requests[i].win
                      /\ requests[j].status # 429}

MaxMtCalls == 2

\* MT_CHUNK_THRESHOLD (1200) and MT_CHUNK_MAX (1600), scaled
MT_CHUNK_THRESHOLD == 3
MT_CHUNK_MAX == 4

\* " [translated]"
Marker == <<" ", "[", "t", "r", "a", "n", "s", "l", "a", "t", "e", "d", "]">>

\* Input strings, as sequences of characters: empty, one character, short,
\* one chunk long, and two chunks long
MtTexts ==
  { <<>>, <<"a">>, <<"a", "b">>, <<"a", "b", ".">>,
    <<"a", "b", ".", "c", "d", ".">> }

MtDsts == {<<"de", "CH">>, <<"de", "DE">>, NoTag}

\* What the provider answers when it answers
ProviderOutputs == {<<"X">>, <<"Y", "Z">>}

\* No splitting: the text as its only chunk
splitWhole(t, maxLen) == <<t>>

\* splitIntoChunks(text, maxLen)
splitIntoChunks(t, maxLen) ==
  LET Stops == {".", "!", "?", "\n"}
      RunLen(x, inStops) ==
        CHOOSE n \in 0..Len(x) :
          /\ \A k \in 1..n : (x[k] \in Stops) = inStops
          /\ n = Len(x) \/ (x[n + 1] \in Stops) # inStops
      \* t.match(/[^.!?\n]+[.!?\n]*/g)
      RECURSIVE Match(_)
      Match(x) ==
        IF x = <<>> THEN <<>>
        ELSE IF x[1] \in Stops THEN Match(Tail(x))
        ELSE LET n1 == RunLen(x, FALSE)
                 n2 == RunLen(SubSeq(x, n1 + 1, Len(x)), TRUE)
             IN  <<SubSeq(x, 1, n1 + n2)>> \o Match(SubSeq(x, n1 + n2 + 1, Len(x)))
      sentences == IF Match(t) = <<>> THEN <<t>> ELSE Match(t)
      RECURSIVE Pack(_, _)
      Pack(ss, buf) ==
        IF ss = <<>> THEN (IF buf # <<>> THEN <<buf>> ELSE <<>>)
        ELSE IF Len(buf \o Head(ss)) > maxLen /\ buf # <<>>
          THEN <<buf>> \o Pack(Tail(ss), Head(ss))
          ELSE Pack(Tail(ss), buf \o Head(ss))
      RECURSIVE Hard(_)
      Hard(c) ==
        IF Len(c) <= maxLen THEN <<c>>
        ELSE <<SubSeq(c, 1, maxLen)>> \o Hard(SubSeq(c, maxLen + 1, Len(c)))
      RECURSIVE Out(_)
      Out(cs) == IF cs = <<>> THEN <<>> ELSE Hard(Head(cs)) \o Out(Tail(cs))
  IN  IF Len(t) <= maxLen THEN <<t>> ELSE Out(Pack(sentences, <<>>))

\* text + marker of attemptTranslateWithRetries
Fallback(text) ==
  text \o (IF env.BFF_TRANSLATION_TAG = "off" THEN <<>> ELSE Marker)

\* The run of translateTextCached from a point where it holds the result of
\* the head part (has) or not, up to its next provider attempt or its return.
\* st holds the call c, the cache, the metrics and the translations table;
\* dbok tells whether the inserts of this stretch succeed.
RECURSIVE Advance(_, _, _, _)
Advance(st, has, res, dbok) ==
  LET c == st.c
      cacheDst == IF baseLang(c.dst) # "" THEN baseLang(c.dst) ELSE c.dst
      key == keyFor(c.text, c.src, cacheDst)
      written == env.supabase /\ dbok
      DbInsert(k, v) == IF written /\ ~\E row \in st.db : row.key = k
                        THEN st.db \cup {[key |-> k, text |-> v]}
                        ELSE st.db
      DbCount(m) == IF written THEN [m EXCEPT !.dbWrites = @ + 1] ELSE m
  IN  IF has
        THEN LET partKey == keyFor(Head(c.parts), c.src, cacheDst)
                 c1 == [c EXCEPT !.done = @ \o res, !.parts = Tail(@), !.i = 0,
                                 !.wait = 0]
             IN  Advance(IF c.chunked
                           THEN [c |-> c1, cch |-> lruSet(st.cch, partKey, res),
                                 m |-> DbCount(st.m), db |-> DbInsert(partKey, res)]
                           ELSE [st EXCEPT !.c = c1],
                         FALSE, <<>>, dbok)
      ELSE IF c.parts = <<>>
        THEN [c |-> [c EXCEPT !.pc = "returned", !.out = c.done],
              cch |-> lruSet(st.cch, key, c.done),
              m |-> DbCount(st.m), db |-> DbInsert(key, c.done)]
      ELSE LET partKey == keyFor(Head(c.parts), c.src, cacheDst)
           IN  IF c.chunked /\ cacheHas(st.cch, partKey)
                 THEN Advance([st EXCEPT !.m.cacheHits = @ + 1], TRUE,
                              cacheGet(st.cch, partKey), dbok)
                      \* a cached part is pushed without lruSet or insert
               ELSE IF ~env.HAS_GEMINI
                 THEN Advance(st, TRUE, Fallback(Head(c.parts)), dbok)
               ELSE st

InitMT ==
  /\ mtCache = {}
  /\ translations = {}
  /\ mtCalls = <<>>
  /\ translateMetrics = [providerCalls |-> 0, providerErrors |-> 0,
                         cacheHits |-> 0, cacheMisses |-> 0,
                         dbHits |-> 0, dbWrites |-> 0]
  /\ \E g \in BOOLEAN, sb \in BOOLEAN, tag \in {"on", "off"} :
       env = [HAS_GEMINI |-> g, supabase |-> sb, BFF_TRANSLATION_TAG |-> tag]
  /\ ResolverIdle /\ TnIdle /\ QueueIdle /\ BatchIdle

\* translateTextCached(text, {srcLang, dstLang}) up to its first provider
\* attempt, or to its return when it needs none
TextCall(text, src, dst, sel, dbok) ==
  /\ LET cacheDst == IF baseLang(dst) # "" THEN baseLang(dst) ELSE dst
         key == keyFor(text, src, cacheDst)
         c0 == [text |-> text, src |-> src, dst |-> dst, pc |-> "returned",
                out |-> text, parts |-> <<>>, done |-> <<>>, chunked |-> FALSE,
                chunks |-> <<>>, i |-> 0, wait |-> 0, prov |-> 0, oks |-> 0,
                exhausted |-> FALSE,
                after |-> \A k \in DOMAIN mtCalls : mtCalls[k].pc = "returned"]
         rows == {row \in translations : row.key = key /\ row.text # <<>>}
         miss == [translateMetrics EXCEPT !.cacheMisses = @ + 1]
         chunked == Len(text) >= MT_CHUNK_THRESHOLD
         parts == IF chunked THEN splitIntoChunks(text, MT_CHUNK_MAX) ELSE <<text>>
         st == Advance([c |-> [c0 EXCEPT !.pc = "run", !.chunked = chunked,
                                         !.parts = parts, !.chunks = parts],
                        cch |-> mtCache, m |-> miss, db |-> translations],
                       FALSE, <<>>, dbok)
     IN  IF text = <<>> \/ dst = NoTag \/ Len(text) < 2
           THEN /\ mtCalls' = Append(mtCalls, c0)
                /\ UNCHANGED <<mtCache, translations, translateMetrics>>
         ELSE IF cacheHas(mtCache, key)
           THEN /\ mtCalls' = Append(mtCalls, [c0 EXCEPT !.out = cacheGet(mtCache, key)])
                /\ translateMetrics' = [translateMetrics EXCEPT !.cacheHits = @ + 1]
                /\ UNCHANGED <<mtCache, translations>>
         ELSE IF env.supabase /\ sel /\ rows # {}
           THEN LET row == CHOOSE row \in rows : TRUE
                IN  /\ mtCalls' = Append(mtCalls, [c0 EXCEPT !.out = row.text])
                    /\ translateMetrics' = [translateMetrics EXCEPT !.dbHits = @ + 1]
                    /\ mtCache' = lruSet(mtCache, key, row.text)
                    /\ UNCHANGED translations
         ELSE /\ mtCalls' = Append(mtCalls, st.c)
              /\ mtCache' = st.cch
              /\ translateMetrics' = st.m
              /\ translations' = st.db
  /\ UNCHANGED env
  /\ UNCHANGED <<resolverVars, tnVars, queueVars, batchVars>>

\* A retry loop that waits MT_BACKOFF_MS after every failed attempt
ProviderAttemptFlatWait(k, ok, answer, dbok) ==
  /\ k \in DOMAIN mtCalls
  /\ mtCalls[k].pc = "run"
  /\ LET c == [mtCalls[k] EXCEPT !.prov = @ + 1]
         m == [translateMetrics EXCEPT !.providerCalls = @ + 1]
         st == IF ok
                 THEN Advance([c |-> [c EXCEPT !.oks = @ + 1], cch |-> mtCache,
                               m |-> m, db |-> translations],
                              TRUE, answer, dbok)
               ELSE IF c.i < MT_RETRIES
                 THEN [c |-> [c EXCEPT !.i = @ + 1, !.wait = MT_BACKOFF_MS],
                       cch |-> mtCache,
                       m |-> m, db |-> translations]
               ELSE Advance([c |-> [c EXCEPT !.exhausted = TRUE], cch |-> mtCache,
                             m |-> [m EXCEPT !.providerErrors = @ + 1],
                             db |-> translations],
                            TRUE, Fallback(Head(c.parts)), dbok)
     IN  /\ mtCalls' = [mtCalls EXCEPT ![k] = st.c]
         /\ mtCache' = st.cch
         /\ translateMetrics' = st.m
         /\ translations' = st.db
  /\ UNCHANGED env
  /\ UNCHANGED <<resolverVars, tnVars, queueVars, batchVars>>

\* One turn of the retry loop of attemptTranslateWithRetries for the head
\* part of call k: the provider answers (ok) with a text, or it throws,
\* answers nothing or times out; after the last failure the part falls back.
ProviderAttempt(k, ok, answer, dbok) ==
  /\ k \in DOMAIN mtCalls
  /\ mtCalls[k].pc = "run"
  /\ LET c == [mtCalls[k] EXCEPT !.prov = @ + 1]
         m == [translateMetrics EXCEPT !.providerCalls = @ + 1]
         st == IF ok
                 THEN Advance([c |-> [c EXCEPT !.oks = @ + 1], cch |-> mtCache,
                               m |-> m, db |-> translations],
                              TRUE, answer, dbok)
               ELSE IF c.i < MT_RETRIES
                 THEN [c |-> [c EXCEPT !.i = @ + 1, !.wait = MT_BACKOFF_MS * (c.i + 1)],
                       cch |-> mtCache,
                       m |-> m, db |-> translations]
               ELSE Advance([c |-> [c EXCEPT !.exhausted = TRUE], cch |-> mtCache,
                             m |-> [m EXCEPT !.providerErrors = @ + 1],
                             db |-> translations],
                            TRUE, Fallback(Head(c.parts)), dbok)
     IN  /\ mtCalls' = [mtCalls EXCEPT ![k] = st.c]
         /\ mtCache' = st.cch
         /\ translateMetrics' = st.m
         /\ translations' = st.db
  /\ UNCHANGED env
  /\ UNCHANGED <<resolverVars, tnVars, queueVars, batchVars>>

NextMT ==
  \/ /\ Len(mtCalls) < MaxMtCalls
     /\ \E text \in MtTexts, dst \in MtDsts, sel \in BOOLEAN, dbok \in BOOLEAN :
          TextCall(text, EnTag, dst, sel, dbok)
  \/ \E k \in 1..MaxMtCalls, ok \in BOOLEAN, answer \in ProviderOutputs,
        dbok \in BOOLEAN :
       ProviderAttempt(k, ok, answer, dbok)

SpecMT == InitMT /\ [][NextMT]_vars

\* One call at a time is looked at closely: a short text, a text of one
\* chunk, of two chunks, of twice the same chunk, and a long sentence after
\* a full stop; the provider's answer is a letter followed by its input.
OneCallTexts ==
  { <<"a", "b">>, <<"a", "b", ".">>, <<"a", "b", ".", "c", "d", ".">>,
    <<"a", "b", ".", "a", "b", ".">>, <<".", "a", "b", "c", "d", "e">> }

NextOneCall ==
  \/ /\ mtCalls = <<>>
     /\ \E text \in OneCallTexts, dst \in MtDsts, sel \in BOOLEAN, dbok \in BOOLEAN :
          TextCall(text, EnTag, dst, sel, dbok)
  \/ /\ Len(mtCalls) = 1 /\ mtCalls[1].pc = "run"
     /\ \E ok \in BOOLEAN, v \in {"X", "Y"}, dbok \in BOOLEAN :
          ProviderAttempt(1, ok, <<v>> \o Head(mtCalls[1].parts), dbok)

SpecOneCall == InitMT /\ [][NextOneCall]_vars

\* Every provider attempt settles, by its answer, its error or MT_TIMEOUT_MS.
SpecOneCallFair == SpecOneCall /\ WF_vars(NextOneCall)

\* Repeated calls for one text, up to three of them, overlapping or not
MaxRepeatCalls == 3

NextRepeat ==
  \/ /\ Len(mtCalls) < MaxRepeatCalls
     /\ \E dst \in MtDsts \ {NoTag}, sel \in BOOLEAN, dbok \in BOOLEAN :
          TextCall(<<"a", "b">>, EnTag, dst, sel, dbok)
  \/ \E k \in 1..MaxRepeatCalls, ok \in BOOLEAN, answer \in ProviderOutputs,
        dbok \in BOOLEAN :
       ProviderAttempt(k, ok, answer, dbok)

SpecRepeat == InitMT /\ [][NextRepeat]_vars

(***************************************************************************)
(* C12                                                                     *)
(***************************************************************************)
\* C12: translateTextCached never rejects, and a call whose provider
\* attempts all failed (retries exhausted) resolves with the original text
\* followed by the marker, or with the bare original text when the marker
\* is disabled.
C12_FallbackIsTextThenMarker ==
  \A k \in DOMAIN mtCalls :
    (mtCalls[k].pc = "returned" /\ mtCalls[k].exhausted /\ mtCalls[k].oks = 0)
      => mtCalls[k].out =
           mtCalls[k].text \o (IF env.BFF_TRANSLATION_TAG = "off" THEN <<>> ELSE Marker)

(***************************************************************************)
(* C13                                                                     *)
(***************************************************************************)
\* Calls 1 and 2 translate the same text from the same source language to
\* two tags of the same base subtag, the second after the first returned.
SameBasePair ==
  /\ Len(mtCalls) >= 2
  /\ mtCalls[1].pc = "returned" /\ mtCalls[2].pc = "returned"
  /\ mtCalls[2].after
  /\ mtCalls[1].text = mtCalls[2].text
  /\ mtCalls[1].src = mtCalls[2].src
  /\ mtCalls[1].dst # NoTag /\ mtCalls[2].dst # NoTag
  /\ mtCalls[1].dst # mtCalls[2].dst
  /\ ToLowerCase(mtCalls[1].dst[1]) = ToLowerCase(mtCalls[2].dst[1])

\* C13 as stated: the two calls make exactly one provider call between them
\* and return the same string.
C13_ExactlyOneProviderCall ==
  SameBasePair =>
    /\ mtCalls[1].prov + mtCalls[2].prov = 1
    /\ mtCalls[1].out = mtCalls[2].out

\* C13: the second call makes no provider call and returns the string the
\* first returned; the two make exactly one provider call when the text has
\* at least 2 characters and is one chunk, was not cached, a provider is
\* configured and its first attempt answers.
C13_SecondServedFromCache ==
  SameBasePair =>
    /\ mtCalls[2].prov = 0
    /\ mtCalls[2].out = mtCalls[1].out
    /\ ( /\ Len(mtCalls[1].text) >= 2
         /\ Len(mtCalls[1].text) <= MT_CHUNK_MAX
         /\ env.HAS_GEMINI
         /\ mtCalls[1].oks = mtCalls[1].prov )
         => mtCalls[1].prov + mtCalls[2].prov = 1

\* de-CH then de-DE: one provider call, the provider's answer both times
C13_Witness ==
  /\ SameBasePair
  /\ mtCalls[1].dst = <<"de", "CH">> /\ mtCalls[2].dst = <<"de", "DE">>
  /\ mtCalls[1].prov = 1 /\ mtCalls[2].prov = 0
  /\ mtCalls[1].out \in ProviderOutputs
  /\ mtCalls[2].out = mtCalls[1].out

(***************************************************************************)
(* C25                                                                     *)
(***************************************************************************)
RECURSIVE Concat(_)
Concat(xs) == IF xs = <<>> THEN <<>> ELSE Head(xs) \o Concat(Tail(xs))

\* The only call translated a text at or over the chunk threshold with
\* nothing cached, and no provider attempt failed.
CleanChunked ==
  /\ Len(mtCalls) = 1
  /\ mtCalls[1].pc = "returned"
  /\ mtCalls[1].chunks # <<>> /\ mtCalls[1].chunked
  /\ env.HAS_GEMINI
  /\ ~mtCalls[1].exhausted /\ mtCalls[1].oks = mtCalls[1].prov

\* The output is the provider's answers for the chunks, joined in the order
\* of the chunks.
AnswersInOrder ==
  LET chunks == mtCalls[1].chunks
  IN  \E vs \in [DOMAIN chunks -> {"X", "Y"}] :
        /\ mtCalls[1].out = Concat([j \in DOMAIN chunks |-> <<vs[j]>> \o chunks[j]])
        /\ \A i \in DOMAIN chunks, j \in DOMAIN chunks :
             chunks[i] = chunks[j] => vs[i] = vs[j]

\* C25 as stated: every chunk has at most MT_CHUNK_MAX characters, the
\* provider is invoked exactly once per chunk, and the result is the
\* per-chunk translations concatenated in input order.
C25_OncePerChunk ==
  CleanChunked =>
    /\ \A j \in DOMAIN mtCalls[1].chunks : Len(mtCalls[1].chunks[j]) <= MT_CHUNK_MAX
    /\ mtCalls[1].prov = Len(mtCalls[1].chunks)
    /\ AnswersInOrder

\* C25: every chunk has at most MT_CHUNK_MAX characters, the provider is
\* invoked exactly once per distinct chunk (a chunk equal to an earlier
\* chunk of the text takes the earlier one's translation from the cache),
\* and the result is the per-chunk translations concatenated in input order.
C25_OncePerDistinctChunk ==
  CleanChunked =>
    /\ \A j \in DOMAIN mtCalls[1].chunks : Len(mtCalls[1].chunks[j]) <= MT_CHUNK_MAX
    /\ mtCalls[1].prov =
         Cardinality({mtCalls[1].chunks[j] : j \in DOMAIN mtCalls[1].chunks})
    /\ AnswersInOrder

\* A text of two equal chunks was translated with one provider call
C25_Witness ==
  /\ CleanChunked
  /\ Len(mtCalls[1].chunks) = 2
  /\ mtCalls[1].chunks[1] = mtCalls[1].chunks[2]
  /\ mtCalls[1].prov = 1

(***************************************************************************)
(* C30                                                                     *)
(***************************************************************************)
IsPrefix(p, x) == Len(p) <= Len(x) /\ SubSeq(x, 1, Len(p)) = p

CallPc(k) == IF k \in DOMAIN mtCalls THEN mtCalls[k].pc ELSE "none"

\* C30: the provider is attempted at most MT_RETRIES + 1 times for one text
\* or chunk (the attempt index never exceeds MT_RETRIES); a failed attempt i
\* below MT_RETRIES is followed by a wait of MT_BACKOFF_MS * (i + 1) and the
\* next attempt for the same part; the last failed attempt is followed by no
\* wait and gives the part followed by the marker; a successful attempt gives
\* the provider's answer; and every call that attempts the provider returns.
C30_BoundedRetries ==
  /\ [][\A k \in DOMAIN mtCalls :
         mtCalls'[k].prov = mtCalls[k].prov + 1 =>
           LET c == mtCalls[k]
               d == mtCalls'[k]
               part == Head(c.parts)
           IN  /\ c.i <= MT_RETRIES
               /\ (d.oks = c.oks /\ c.i < MT_RETRIES) =>
                    /\ d.i = c.i + 1
                    /\ d.wait = MT_BACKOFF_MS * (c.i + 1)
                    /\ d.parts = c.parts /\ d.done = c.done /\ d.pc = "run"
               /\ (d.oks = c.oks /\ c.i = MT_RETRIES) =>
                    /\ d.wait = 0 /\ d.i = 0
                    /\ Len(d.parts) < Len(c.parts)
                    /\ IsPrefix(c.done \o part \o
                                (IF env.BFF_TRANSLATION_TAG = "off" THEN <<>> ELSE Marker),
                                d.done)
               /\ d.oks = c.oks + 1 =>
                    /\ d.wait = 0 /\ d.i = 0
                    /\ Len(d.parts) < Len(c.parts)
                    /\ \E v \in {"X", "Y"} : IsPrefix(c.done \o <<v>> \o part, d.done)]_vars
  /\ (CallPc(1) = "run") ~> (CallPc(1) = "returned")

\* A call returned the fallback after MT_RETRIES + 1 failed attempts, the
\* last wait having been MT_BACKOFF_MS * MT_RETRIES
C30_Witness ==
  /\ Len(mtCalls) = 1
  /\ mtCalls[1].pc = "returned"
  /\ mtCalls[1].exhausted
  /\ mtCalls[1].prov = MT_RETRIES + 1
  /\ mtCalls[1].out = mtCalls[1].text \o Marker

(***************************************************************************)
(* C26                                                                     *)
(***************************************************************************)
\* The returned calls made before with the arguments of call d
SameArgsDone(d) ==
  {k \in DOMAIN mtCalls : /\ mtCalls[k].pc = "returned"
                          /\ mtCalls[k].text = d.text
                          /\ mtCalls[k].src = d.src
                          /\ mtCalls[k].dst = d.dst}

\* The returned calls made before for the cache key of call d: the text, the
\* source and the base language of the destination
SameKeyDone(d) ==
  {k \in DOMAIN mtCalls : /\ mtCalls[k].pc = "returned"
                          /\ mtCalls[k].text = d.text
                          /\ mtCalls[k].src = d.src
                          /\ mtCalls[k].dst # NoTag
                          /\ ToLowerCase(mtCalls[k].dst[1]) = ToLowerCase(d.dst[1])}

\* C26 as stated: a call for a text of at least 2 characters and a
\* destination, made after a call with the same arguments has completed,
\* returns at once the string that call returned, makes no provider call and
\* increments cacheHits only.
C26_RepeatIsIdentical ==
  [][Len(mtCalls') = Len(mtCalls) + 1 =>
       LET d == mtCalls'[Len(mtCalls')]
           m == translateMetrics
           n == translateMetrics'
       IN  (Len(d.text) >= 2 /\ d.dst # NoTag /\ SameArgsDone(d) # {}) =>
             /\ d.pc = "returned" /\ d.prov = 0
             /\ \A k \in SameArgsDone(d) : d.out = mtCalls[k].out
             /\ n = [m EXCEPT !.cacheHits = @ + 1]]_vars

\* C26: a call for a text of at least 2 characters and a destination, made
\* after a call with the same arguments has completed, returns at once the
\* string the in-process cache holds for its key, which a completed call for
\* that key returned; it makes no provider call and increments cacheHits
\* only; a call that finds nothing in either tier increments cacheMisses, and
\* a call that finds its key only in the persistent table increments dbHits
\* and makes no provider call.
C26_RepeatIsCacheHit ==
  [][Len(mtCalls') = Len(mtCalls) + 1 =>
       LET d == mtCalls'[Len(mtCalls')]
           m == translateMetrics
           n == translateMetrics'
       IN  (Len(d.text) >= 2 /\ d.dst # NoTag) =>
             /\ SameArgsDone(d) # {} =>
                  /\ d.pc = "returned" /\ d.prov = 0
                  /\ \E e \in mtCache :
                       /\ e.key = <<d.src, ToLowerCase(d.dst[1]), d.text>>
                       /\ e.val = d.out
                  /\ \E k \in SameKeyDone(d) : d.out = mtCalls[k].out
                  /\ n = [m EXCEPT !.cacheHits = @ + 1]
             /\ (mtCache = {} /\ translations = {}) =>
                  /\ n.cacheMisses = m.cacheMisses + 1
                  /\ n.cacheHits = m.cacheHits /\ n.dbHits = m.dbHits
             /\ n.dbHits # m.dbHits =>
                  /\ d.pc = "returned" /\ d.prov = 0
                  /\ n = [m EXCEPT !.dbHits = @ + 1]
                  /\ \E row \in translations : row.text = d.out]_vars

\* The first call missed and called the provider, the repeated call was a
\* cache hit with the same string
C26_Witness ==
  /\ Len(mtCalls) = 2
  /\ mtCalls[1].pc = "returned" /\ mtCalls[2].pc = "returned"
  /\ mtCalls[2].after
  /\ mtCalls[1].text = mtCalls[2].text /\ mtCalls[1].dst = mtCalls[2].dst
  /\ mtCalls[1].prov >= 1 /\ mtCalls[1].oks >= 1 /\ mtCalls[2].prov = 0
  /\ mtCalls[2].out = mtCalls[1].out
  /\ translateMetrics.cacheMisses = 1 /\ translateMetrics.cacheHits = 1

(***************************************************************************)
(* C29                                                                     *)
(***************************************************************************)
\* The step of run r that adds a row to cluster_ai
InsertsRow(r) ==
  /\ Len(cluster_ai') = Len(cluster_ai) + 1
  /\ runs'[r].ins = Len(cluster_ai')

\* C29: on the no-target path the second read of (cluster, lang, current)
\* comes after the translation; the run goes on to the insert only when that
\* read gave it no row, and a row is inserted by the run only from there; when
\* the read gives a row, the run writes nothing and returns the translated
\* content.
C29_InsertOnlyAfterEmptyRecheck ==
  [][\A r \in DOMAIN runs :
       /\ (runs[r].pc = "chkNew" /\ runs'[r].pc # "chkNew") =>
            LET cur == CurrentOf(cluster_ai, runs[r].c, runs[r].lang)
            IN  /\ runs[r].translated # NoRow /\ runs[r].writes = 0
                /\ cluster_ai' = cluster_ai
                /\ runs'[r].pc \in {"insNew", "returned"}
                /\ runs'[r].pc = "insNew" => (cur = {} \/ runs'[r].wfail)
                /\ (cur # {} /\ ~runs'[r].wfail) =>
                     /\ runs'[r].pc = "returned"
                     /\ runs'[r].ins = 0 /\ runs'[r].writes = 0
                     /\ runs'[r].out =
                          ReturnedTranslated(runs[r].translated, runs[r].pivot)
       /\ (runs[r].path = "new" /\ InsertsRow(r)) =>
            runs[r].pc \in {"insNew", "insNew2"}
       /\ (runs[r].pc # "insNew" /\ runs'[r].pc = "insNew") =>
            runs[r].pc = "chkNew"]_vars

\* Two runs translated for the same (cluster, lang); one inserted the row,
\* the other found it with its second read, wrote nothing and returned its
\* translation
C29_Witness ==
  \E r, q \in DOMAIN runs :
     /\ r # q
     /\ runs[r].path = "new" /\ runs[r].pc \in {"returned", "settled"}
     /\ runs[r].tfc >= 1 /\ runs[r].writes = 0 /\ ~runs[r].wfail
     /\ runs[r].out.kind = "value" /\ runs[r].out.is_translated
     /\ runs[q].path = "new" /\ runs[q].ins # 0
     /\ runs[q].c = runs[r].c /\ runs[q].lang = runs[r].lang
     /\ Len(cluster_ai) = runs[q].ins

(***************************************************************************)
(* C27                                                                     *)
(***************************************************************************)
\* Run r is replacing the stale current row of its own (cluster, lang)
InStaleSwap(r) ==
  /\ runs[r].path = "stale"
  /\ runs[r].pc \in {"updStale", "insStale", "insStale2"}
  /\ runs[r].useRow.lang = runs[r].lang

\* C27: while a run replaces the stale current row of (cluster, lang), the
\* table always holds a current row of (cluster, lang): the old row stops
\* being current only together with the new row becoming current.
C27_SwapIsAtomic ==
  \A r \in DOMAIN runs :
     InStaleSwap(r) => CurrentOf(cluster_ai, runs[r].c, runs[r].lang) # {}

(***************************************************************************)
(* C24                                                                     *)
(***************************************************************************)
\* C24: when the current target row carries the stub marker, the next ensure
\* for the key heals it: what its translateNow returns is free of the marker
\* unless the provider was invoked again and every attempt of a per-field
\* call failed again.
C24_SelfHealing ==
  [][\A r \in DOMAIN runs :
       (/\ runs[r].pc = "trStale" /\ runs'[r].pc = "updStale"
        /\ hasStubMarker(runs[r].useRow)
        /\ hasStubMarker(runs'[r].translated)) =>
         runs'[r].prov >= runs[r].prov + MT_RETRIES + 1]_vars

-----------------------------------------------------------------------------
(* The resolver with a storage that may stay silent                        *)

\* The places where a run awaits a storage call of ensureClusterTextInLang
StoragePc ==
  {"selTarget", "selBase", "selCurrents", "updOrig", "updStale", "chkNew",
   "insNew", "insStale", "insOrig", "insNew2", "insStale2", "insOrig2"}

\* The storage call the run awaits never responds. The await is not wrapped
\* in withTimeout, so nothing resumes the run.
NoResponse(r) ==
  /\ runs[r].pc \in StoragePc
  /\ runs' = [runs EXCEPT ![r].pc = "hung"]
  /\ UNCHANGED <<cluster_ai, cache, _ensureInflight, calls>>
  /\ UNCHANGED notResolver

\* The steps the process takes by itself once a call is made
ResolverStep ==
  \/ \E r \in RunIds : SelectTarget(r)
  \/ \E r \in RunIds : SelectBase(r)
  \/ \E r \in RunIds : SelectCurrents(r)
  \/ \E r \in RunIds : Translate(r)
  \/ \E r \in RunIds : UpdateOrig(r)
  \/ \E r \in RunIds : UpdateStale(r)
  \/ \E r \in RunIds : CheckAgain(r)
  \/ \E r \in RunIds : Insert(r)
  \/ \E r \in RunIds : InsertFallback(r)
  \/ \E r \in RunIds : Settle(r)
  \/ \E k \in CallIds : Resume(k)

\* One resolver invocation and the callers that join it
NextHang ==
  \/ \E c \in ClusterIds, l \in TargetTags :
       /\ runs = <<>> \/ _ensureInflight[<<c, l>>] # 0
       /\ Dedup(c, l)
  \/ \E r \in RunIds : NoResponse(r)
  \/ ResolverStep

\* Every step of the process is taken when it can be; a response of the
\* storage is not promised.
SpecHangFair == Init /\ [][NextHang]_vars /\ WF_vars(ResolverStep)

(***************************************************************************)
(* C23                                                                     *)
(***************************************************************************)
RunPc(r) == IF r \in DOMAIN runs THEN runs[r].pc ELSE "none"

\* C23: every resolver invocation eventually settles and its entry in the
\* in-flight map is eventually removed, even when a storage call never
\* responds.
C23_EveryInvocationSettles ==
  (RunPc(1) # "none") ~>
     (RunPc(1) = "settled" /\ \A k \in Keys : _ensureInflight[k] = 0)

-----------------------------------------------------------------------------
(* Language negotiation (negotiateLanguage, negotiateLanguageSimple)       *)

\* The comma-separated elements of an Accept-Language header: a tag, with or
\* without a weight; the empty element has no tag.
AcceptElements ==
  {[tag |-> <<"de", "CH">>, q |-> ""], [tag |-> <<"EN", "us">>, q |-> ""],
   [tag |-> <<"tr">>, q |-> ""], [tag |-> NoTag, q |-> ""],
   [tag |-> <<"de">>, q |-> ";q=0.8"], [tag |-> <<"en", "us">>, q |-> ";q=0.9"]}

\* The values of ?lang: absent or empty, or a tag
QueryLangs == {NoTag, <<"fr">>, <<"EN", "us">>, <<"de", "ch">>}

\* header.split(",")[i].trim(): the text of an element up to the next comma,
\* its weight included, cut at "-" as normalizeBcp47 will cut it
ElementText(e) ==
  IF e.tag = NoTag \/ e.q = "" THEN e.tag
  ELSE [e.tag EXCEPT ![Len(e.tag)] = @ \o e.q]

\* pickFromAcceptLanguage(header)
pickFromAcceptLanguage(header) ==
  IF header = <<>> THEN NoTag ELSE normalizeBcp47(ElementText(header[1]))

\* negotiateLanguageSimple(queryLang, acceptLanguageHeader), and
\* negotiateLanguage(req) with req.query.lang and the accept-language header
negotiateLanguageSimple(queryLang, acceptLanguageHeader) ==
  LET q == normalizeBcp47(queryLang)
      h == pickFromAcceptLanguage(acceptLanguageHeader)
  IN  IF q # NoTag THEN q ELSE IF h # NoTag THEN h ELSE EnTag

InitNegotiate ==
  /\ tn = [pc |-> "idle"] /\ negotiated = <<>> /\ feed = [pc |-> "off"]
  /\ HarnessIdle
  /\ ResolverIdle /\ MtIdle /\ QueueIdle /\ BatchIdle

\* One request: its ?lang and its Accept-Language header of up to two elements
Negotiate(queryLang, header) ==
  /\ negotiated = <<>>
  /\ negotiated' =
       <<[queryLang |-> queryLang, header |-> header,
          lang |-> negotiateLanguageSimple(queryLang, header)]>>
  /\ UNCHANGED <<tn, feed, lru, split, resolverVars, mtVars, queueVars, batchVars>>

NextNegotiate ==
  \/ \E q \in QueryLangs : Negotiate(q, <<>>)
  \/ \E q \in QueryLangs, e \in AcceptElements : Negotiate(q, <<e>>)
  \/ \E q \in QueryLangs, e \in AcceptElements, f \in AcceptElements :
       Negotiate(q, <<e, f>>)

SpecNegotiate == InitNegotiate /\ [][NextNegotiate]_vars

(***************************************************************************)
(* C28                                                                     *)
(***************************************************************************)
\* The first tag of an Accept-Language header
FirstTag(header) == IF header = <<>> THEN NoTag ELSE header[1].tag

\* C28: the request language is the normalized ?lang value when that is a
\* non-empty tag, otherwise the normalized first tag of the Accept-Language
\* header, otherwise en; it is never empty.
C28_Negotiation ==
  \A i \in DOMAIN negotiated :
     LET n == negotiated[i]
         q == normalizeBcp47(n.queryLang)
         h == normalizeBcp47(FirstTag(n.header))
     IN  /\ n.lang # NoTag
         /\ n.lang = IF q # NoTag THEN q ELSE IF h # NoTag THEN h ELSE EnTag

-----------------------------------------------------------------------------
(* GET /feed                                                               *)

\* The limits of the handler, scaled: Math.min(limit, 8) of strict mode, and
\* Math.min(parseInt(req.query.limit) || 20, 100)
FeedCaps == [strict |-> 2, default |-> 3, cap |-> 3]

Min(a, b) == IF a < b THEN a ELSE b

\* The articles table, most recent first; every article is written in en
FeedArticles == <<"a1", "a2", "a3", "a4">>

\* The dst_lang values for which articles_translations may hold a row of an
\* article: none, or one language
FeedTranslations ==
  [{"a1", "a2", "a3", "a4"} ->
     {{}, {<<"fr">>}, {<<"de">>}, {<<"de", "CH">>}}]

\* getBestArticleTranslation(articleId, target): the dst_lang of the row
\* found, for the target, else its base language, else any row; NoTag for
\* null
getBestArticleTranslation(tbl, articleId, target) ==
  LET baseTarget == <<base(target)>>
  IN  IF target \in tbl[articleId] THEN target
      ELSE IF baseTarget # target /\ baseTarget \in tbl[articleId]
        THEN baseTarget
      ELSE IF tbl[articleId] # {} THEN CHOOSE l \in tbl[articleId] : TRUE
      ELSE NoTag

\* The cards pushed by the loop over arts.slice(0, effectiveLimit), from
\* article i on
RECURSIVE FeedCards(_, _, _, _, _)
FeedCards(tbl, target, waitTranslations, effectiveLimit, i) ==
  IF i > Min(effectiveLimit, Len(FeedArticles)) THEN <<>>
  ELSE LET a == FeedArticles[i]
           tr == getBestArticleTranslation(tbl, a, target)
           rest == FeedCards(tbl, target, waitTranslations, effectiveLimit, i + 1)
       IN  IF tr = NoTag
             THEN IF waitTranslations THEN rest
                  ELSE <<[id |-> a, language |-> target, is_translated |-> FALSE,
                          translation_status |-> "pending"]>> \o rest
           ELSE <<[id |-> a, language |-> normalizeBcp47(tr),
                   is_translated |-> base(normalizeBcp47(tr)) # "en",
                   translation_status |-> "ready"]>> \o rest

InitFeed ==
  /\ \E tbl \in FeedTranslations :
       feed = [pc |-> "idle", articles_translations |-> tbl]
  /\ tn = [pc |-> "idle"] /\ negotiated = <<>> /\ HarnessIdle
  /\ ResolverIdle /\ MtIdle /\ QueueIdle /\ BatchIdle

\* app.get("/feed", langMiddleware, ...): the whole handler. limit 0 stands
\* for a missing ?limit; ok tells whether the storage reads succeed. The
\* handler calls neither the translator nor _enqueuePersist and sets no header
\* of its own.
FeedRequest(target, strict, queryLimit, ok) ==
  /\ feed.pc = "idle"
  /\ LET limit == Min(IF queryLimit = 0 THEN FeedCaps.default ELSE queryLimit,
                      FeedCaps.cap)
         waitTranslations == strict
         effectiveLimit == IF waitTranslations THEN Min(limit, FeedCaps.strict)
                           ELSE limit
         headers == [h \in {"Content-Language"} |-> target]
     IN  feed' = [pc |-> "done", articles_translations |-> feed.articles_translations,
                  target |-> target, strict |-> strict, limit |-> queryLimit,
                  headers |-> headers,
                  status |-> IF ok THEN 200 ELSE 500,
                  cards |-> IF ok
                              THEN FeedCards(feed.articles_translations, target,
                                             waitTranslations, effectiveLimit, 1)
                              ELSE <<>>]
  /\ UNCHANGED <<tn, negotiated, lru, split, resolverVars, mtVars, queueVars, batchVars>>

NextFeed ==
  \E target \in {<<"fr">>, <<"de", "CH">>}, strict \in BOOLEAN,
     queryLimit \in 0..(FeedCaps.cap + 1), ok \in BOOLEAN :
       FeedRequest(target, strict, queryLimit, ok)

SpecFeed == InitFeed /\ [][NextFeed]_vars

(***************************************************************************)
(* C21                                                                     *)
(***************************************************************************)
\* The candidates of a request: the first articles up to the limit in force
FeedCandidates ==
  LET limit == Min(IF feed.limit = 0 THEN FeedCaps.default ELSE feed.limit,
                   FeedCaps.cap)
      n == IF feed.strict THEN Min(limit, FeedCaps.strict) ELSE limit
  IN  {FeedArticles[i] : i \in 1..Min(n, Len(FeedArticles))}

CardsOf(a) == {i \in DOMAIN feed.cards : feed.cards[i].id = a}

\* The ids listed in the response header X-Pending-Cluster-Ids
PendingHeaderIds ==
  IF "X-Pending-Cluster-Ids" \in DOMAIN feed.headers
    THEN feed.headers["X-Pending-Cluster-Ids"] ELSE {}

\* C21: in a non-strict response every candidate without a persisted row in
\* the target language is a card with translation_status pending, its id is
\* listed in X-Pending-Cluster-Ids and one background job was scheduled for
\* it; a candidate with a persisted target row is a ready card; the handler
\* translates nothing inline.
C21_NonStrictPending ==
  (feed.pc = "done" /\ ~feed.strict /\ feed.status = 200) =>
    LET missing == {a \in FeedCandidates :
                      feed.target \notin feed.articles_translations[a]}
    IN  /\ \A a \in missing :
             /\ \E i \in CardsOf(a) : feed.cards[i].translation_status = "pending"
             /\ a \in PendingHeaderIds
        /\ Len(jobs) = Cardinality(missing)
        /\ \A a \in FeedCandidates \ missing :
             \E i \in CardsOf(a) : feed.cards[i].translation_status = "ready"
        /\ mtCalls = <<>> /\ runs = <<>>

(***************************************************************************)
(* C22                                                                     *)
(***************************************************************************)
\* C22: every card of a strict response is ready and in the requested
\* language, an item without translation is left out, and the cards are at
\* most the strict cap, which is below the non-strict cap.
C22_StrictReadyOnly ==
  (feed.pc = "done" /\ feed.strict /\ feed.status = 200) =>
    /\ \A i \in DOMAIN feed.cards :
         /\ feed.cards[i].translation_status = "ready"
         /\ feed.cards[i].language = feed.target
    /\ \A a \in FeedCandidates :
         feed.articles_translations[a] = {} => CardsOf(a) = {}
    /\ Len(feed.cards) <= FeedCaps.strict
    /\ FeedCaps.strict < FeedCaps.cap

-----------------------------------------------------------------------------
(* The in-process cache as the Map it is: entries in insertion order       *)

MaxLruOps == 4
MaxCacheCap == 2

LruKeys == {"k1", "k2", "k3"}

\* A Map.set of an existing key without the delete before it: the entry
\* keeps its place
lruSetKeepPlace(cch, k, v, max) ==
  LET has == \E i \in DOMAIN cch : cch[i].key = k
      added == IF has
                 THEN [i \in DOMAIN cch |->
                         IF cch[i].key = k THEN [key |-> k, val |-> v] ELSE cch[i]]
                 ELSE Append(cch, [key |-> k, val |-> v])
  IN  IF Len(added) > max THEN Tail(added) ELSE added

\* lruSet(k, v) on the Map: delete k if present, set it (at the end), and
\* delete the first key when the size exceeds MAX_CACHE
lruSetMap(cch, k, v, max) ==
  LET without == SelectSeq(cch, LAMBDA e : e.key # k)
      added == Append(without, [key |-> k, val |-> v])
  IN  IF Len(added) > max THEN Tail(added) ELSE added

\* MAX_CACHE is read once at start. at[k] is the number of the latest
\* lruSet of k (0 for none), n the number of operations made, last the
\* latest operation.
InitLru ==
  /\ \E max \in 0..MaxCacheCap :
       lru = [pc |-> "on", MAX_CACHE |-> max, cache |-> <<>>,
              at |-> [k \in LruKeys |-> 0], n |-> 0,
              last |-> [op |-> "none", key |-> ""]]
  /\ split = [pc |-> "off"]
  /\ tn = [pc |-> "idle"] /\ negotiated = <<>> /\ feed = [pc |-> "off"]
  /\ ResolverIdle /\ MtIdle /\ QueueIdle /\ BatchIdle

LruSet(k, v) ==
  /\ lru.n < MaxLruOps
  /\ lru' = [lru EXCEPT !.cache = lruSetMap(lru.cache, k, v, lru.MAX_CACHE),
                        !.at[k] = lru.n + 1, !.n = @ + 1,
                        !.last = [op |-> "set", key |-> k]]
  /\ UNCHANGED <<tn, negotiated, feed, split>>
  /\ UNCHANGED <<resolverVars, mtVars, queueVars, batchVars>>

\* cache.has(k) and cache.get(k) of a lookup
LruGet(k) ==
  /\ lru.n < MaxLruOps
  /\ lru' = [lru EXCEPT !.n = @ + 1, !.last = [op |-> "get", key |-> k]]
  /\ UNCHANGED <<tn, negotiated, feed, split>>
  /\ UNCHANGED <<resolverVars, mtVars, queueVars, batchVars>>

NextLru ==
  \/ \E k \in LruKeys, v \in {"x", "y"} : LruSet(k, v)
  \/ \E k \in LruKeys : LruGet(k)

SpecLru == InitLru /\ [][NextLru]_vars

(***************************************************************************)
(* C31                                                                     *)
(***************************************************************************)
KeysOf(cch) == {cch[i].key : i \in DOMAIN cch}

\* C31: after every lruSet the cache holds at most MAX_CACHE entries; the
\* entry a set evicts is the one whose latest set is oldest; the key set
\* becomes the newest entry; a read changes neither content nor order.
C31_BoundedOldestSetEvicted ==
  [][lru.pc = "on" /\ lru'.n = lru.n + 1 =>
       LET k == lru'.last.key
           before == KeysOf(lru.cache) \cup {k}
           evicted == before \ KeysOf(lru'.cache)
       IN  IF lru'.last.op = "get" THEN lru'.cache = lru.cache
           ELSE /\ Len(lru'.cache) <= lru.MAX_CACHE
                /\ Cardinality(KeysOf(lru'.cache)) = Len(lru'.cache)
                /\ Cardinality(evicted) <= 1
                /\ evicted # {} => Cardinality(before) > lru.MAX_CACHE
                /\ \A e \in evicted : \A j \in before : lru'.at[e] <= lru'.at[j]
                /\ lru'.cache # <<>> =>
                     /\ lru'.cache[Len(lru'.cache)].key = k
                     /\ \A i, j \in DOMAIN lru'.cache :
                          i < j => lru'.at[lru'.cache[i].key] < lru'.at[lru'.cache[j].key]]_vars

\* A full cache of two entries: the older key was set again and read, and
\* the set of a third key evicted the other one
C31_Witness ==
  /\ lru.pc = "on" /\ lru.MAX_CACHE = 2 /\ lru.n = 4
  /\ lru.last = [op |-> "set", key |-> "k3"]
  /\ lru.at = [k \in LruKeys |-> CASE k = "k1" -> 3 [] k = "k2" -> 2 [] OTHER -> 4]
  /\ KeysOf(lru.cache) = {"k1", "k3"}

(***************************************************************************)
(* C32                                                                     *)
(***************************************************************************)
\* C32: the pivot a run takes is one of the current rows of its cluster; it
\* is the row with lang en whenever the cluster has a current en row, and a
\* run finds no pivot only when the cluster has no current row.
C32_PivotPrefersEn ==
  [][\A r \in DOMAIN runs :
       (runs[r].pc = "selCurrents" /\ runs'[r].pc # "selCurrents") =>
         LET currents == CurrentsOf(cluster_ai, runs[r].c)
             p == runs'[r].pivot
         IN  /\ p # NoRow =>
                  /\ \E row \in currents : p = [row EXCEPT !.pivot_hash = NoSig]
                  /\ (\E row \in currents : row.lang = EnTag) => p.lang = EnTag
             /\ (p = NoRow /\ runs'[r].out.kind # "error") =>
                  /\ currents = {}
                  /\ runs'[r].out.kind = "null"]_vars

\* One run took the en row as pivot although a current row of another
\* language was stored
C32_Witness ==
  \E r \in DOMAIN runs :
     /\ runs[r].pivot.lang = EnTag
     /\ runs[r].pc = "trStale"
     /\ \E row \in CurrentsOf(cluster_ai, runs[r].c) : row.lang # EnTag

(***************************************************************************)
(* The orig-body case, requested for the pivot's language and for a        *)
(* regional variant of it, through GET /cluster/:id                        *)
(***************************************************************************)
OrigRequestTags == {<<"en">>, <<"en", "us">>}

InitOrig ==
  /\ cluster_ai \in {t \in InitTables : \E i \in DOMAIN t : isOrigBody(t[i])}
  /\ cache = {}
  /\ _ensureInflight = [k \in Keys |-> 0]
  /\ runs = <<>>
  /\ calls = <<>>
  /\ TnIdle /\ MtIdle /\ QueueIdle /\ BatchIdle

NextOrig ==
  \/ \E c \in ClusterIds, q \in OrigRequestTags : ClusterGet(c, q)
  \/ \E r \in RunIds : SelectTarget(r)
  \/ \E r \in RunIds : SelectBase(r)
  \/ \E r \in RunIds : SelectCurrents(r)
  \/ \E r \in RunIds : Translate(r)
  \/ \E r \in RunIds : UpdateOrig(r)
  \/ \E r \in RunIds : UpdateStale(r)
  \/ \E r \in RunIds : CheckAgain(r)
  \/ \E r \in RunIds : Insert(r)
  \/ \E r \in RunIds : InsertFallback(r)
  \/ \E k \in CallIds : Resume(k)

SpecOrig == InitOrig /\ [][NextOrig]_vars

(***************************************************************************)
(* C33                                                                     *)
(***************************************************************************)
\* Run q started after run r had returned, for the same cluster and language
Follows(q, r) ==
  /\ r \in runs[q].after
  /\ runs[q].c = runs[r].c /\ runs[q].lang = runs[r].lang

\* Run r went through the orig-body case, every write of it took effect
OrigBodyDone(r) ==
  /\ runs[r].path = "orig" /\ runs[r].pc \in {"returned", "settled"}
  /\ runs[r].ins # 0 /\ ~runs[r].wfail

\* C33: on the orig-body case the run calls the translator with source auto
\* although the languages match, then marks every current row of
\* (cluster, targetLang) non-current and inserts one current row tagged with
\* the pivot signature and without the orig-body tag; an ensure for the key
\* that follows makes no translator call.
C33_OrigBodyReplaced ==
  /\ [][\A r \in DOMAIN runs :
          /\ (runs[r].pc = "trOrig" /\ runs'[r].pc # "trOrig") =>
               /\ isOrigBody(runs[r].useRow)
               /\ base(runs[r].useRow.lang) = base(runs[r].lang)
               /\ runs'[r].tfc = runs[r].tfc + 1
          /\ (runs[r].pc = "updOrig" /\ runs'[r].pc # "updOrig"
                /\ ~runs'[r].wfail) =>
               /\ CurrentOf(cluster_ai', runs[r].c, runs[r].lang) = {}
               /\ Len(cluster_ai') = Len(cluster_ai)
          /\ (runs[r].pc = "insOrig" /\ runs'[r].pc = "returned"
                /\ ~runs'[r].wfail) =>
               /\ Len(cluster_ai') = Len(cluster_ai) + 1
               /\ LET new == cluster_ai'[Len(cluster_ai')]
                  IN  /\ new.is_current /\ new.lang = runs[r].lang
                      /\ new.cluster_id = runs[r].c
                      /\ new.model.ph = pivotSigOf(runs[r].pivot)
                      /\ new.pivot_hash = pivotSigOf(runs[r].pivot)
                      /\ ~new.model.orig]_vars
  /\ [](\A r, q \in DOMAIN runs :
          (OrigBodyDone(r) /\ Follows(q, r)) => runs[q].tfc = 0)

(***************************************************************************)
(* C34                                                                     *)
(***************************************************************************)
\* Row a with nothing changed but possibly is_current
SameButCurrent(a, b) == [a EXCEPT !.is_current = b.is_current] = b

\* C34: the resolver never deletes a cluster_ai row and never sets is_current
\* back to true: a stored row changes only in is_current, and only from true
\* to false; a row that is current and was not there before was appended by
\* an insert, current from its creation.
C34_OnlyDeactivateAndInsert ==
  [][/\ Len(cluster_ai') \in {Len(cluster_ai), Len(cluster_ai) + 1}
     /\ \A i \in 1..Len(cluster_ai) :
          /\ SameButCurrent(cluster_ai[i], cluster_ai'[i])
          /\ cluster_ai'[i].is_current => cluster_ai[i].is_current
     /\ Len(cluster_ai') = Len(cluster_ai) + 1 =>
          /\ cluster_ai'[Len(cluster_ai')].is_current
          /\ \E r \in DOMAIN runs :
               /\ runs[r].pc \in InsertPc \cup {"insNew2", "insStale2", "insOrig2"}
               /\ runs'[r].ins = Len(cluster_ai')
               /\ cluster_ai'[Len(cluster_ai')].lang = runs[r].lang]_vars

\* A row was marked non-current and a row inserted after it is current
C34_Witness ==
  \E i, j \in DOMAIN cluster_ai :
     /\ i < j /\ ~cluster_ai[i].is_current /\ cluster_ai[j].is_current
     /\ cluster_ai[i].lang = cluster_ai[j].lang
     /\ \E r \in DOMAIN runs : runs[r].ins = j /\ runs[r].path \in {"stale", "orig"}

(***************************************************************************)
(* C35                                                                     *)
(***************************************************************************)
\* Run r performs a storage write in this step
Writes(r) == r \in DOMAIN runs /\ runs'[r].writes = runs[r].writes + 1

\* The rows of language l are the same before and after the step
LangUntouched(l) ==
  /\ \A i \in 1..Len(cluster_ai) :
       cluster_ai[i].lang = l => cluster_ai'[i] = cluster_ai[i]
  /\ \A i \in (Len(cluster_ai) + 1)..Len(cluster_ai') : cluster_ai'[i].lang # l

\* C35: the resolver never writes rows of the pivot language, neither when
\* the target is the pivot language nor otherwise: a write of a run leaves
\* every row of its pivot's language as it is, so the pivot row stays
\* current and unchanged.
C35_PivotLanguageNeverWritten ==
  [][\A r \in DOMAIN runs :
       (Writes(r) /\ runs[r].pivot # NoRow) => LangUntouched(runs[r].pivot.lang)]_vars

(***************************************************************************)
(* C36                                                                     *)
(***************************************************************************)
\* C36: a write of ensure(c, L) leaves every row whose lang differs from L
\* as it is: the row it inserts has lang L, and is_current changes only on
\* rows of cluster c with lang L (the row of the base language de is not
\* marked non-current while de-CH is served).
C36_OtherLanguagesUntouched ==
  [][\A r \in DOMAIN runs :
       Writes(r) =>
         /\ \A i \in 1..Len(cluster_ai) :
              cluster_ai'[i] # cluster_ai[i] =>
                /\ cluster_ai[i].lang = runs[r].lang
                /\ cluster_ai[i].cluster_id = runs[r].c
         /\ \A i \in (Len(cluster_ai) + 1)..Len(cluster_ai') :
              cluster_ai'[i].lang = runs[r].lang]_vars

(***************************************************************************)
(* C37                                                                     *)
(***************************************************************************)
\* Run r has persisted a current row for its key
Persisted(r) ==
  /\ runs[r].pc \in {"returned", "settled"}
  /\ runs[r].ins # 0

\* C37: once a run has persisted a current row for (c, L), a later run for
\* (c, L) that selects the same pivot performs no storage write, so the
\* number of rows of (c, L) stays as it is.
C37_Idempotent ==
  \A r, q \in DOMAIN runs :
     (Persisted(r) /\ Follows(q, r) /\ runs[q].pivot = runs[r].pivot)
       => runs[q].writes = 0

(***************************************************************************)
(* C38                                                                     *)
(***************************************************************************)
\* C38: only successful provider translations are stored: no entry of the
\* memory cache and no row of the translations table holds the fallback
\* result (the text of its key followed by the marker) of its key; and a
\* call that comes after a call for the same text and target whose provider
\* attempts all failed attempts the provider again.
C38_FallbackNotCached ==
  /\ \A e \in mtCache : e.val # Fallback(e.key[3])
  /\ \A row \in translations : row.text # Fallback(row.key[3])
  /\ \A j, k \in DOMAIN mtCalls :
       ( /\ j < k /\ mtCalls[k].after /\ mtCalls[k].pc = "returned"
         /\ mtCalls[j].exhausted /\ mtCalls[j].oks = 0
         /\ mtCalls[j].text = mtCalls[k].text /\ mtCalls[j].dst = mtCalls[k].dst )
       => mtCalls[k].prov >= 1

(***************************************************************************)
(* C39                                                                     *)
(***************************************************************************)
\* C39: provided every started job settles, every enqueued job is started,
\* and started once (a job starts from the queue and never goes back to
\* it); jobs start in the order they were enqueued; and the queue is never
\* non-empty while no job is running and no drain is scheduled.
C39_QueueLivenessAndOrder ==
  /\ \A j \in JobIds : (StatusOf(j) = "queued") ~> (StatusOf(j) # "queued")
  /\ [][\A j \in DOMAIN jobs :
          /\ jobs'[j].st = "queued" => jobs[j].st = "queued"
          /\ (jobs'[j].st = "running" /\ jobs[j].st # "running") =>
               /\ jobs[j].st = "queued"
               /\ \A i \in 1..(j - 1) : jobs[i].st # "queued"
               /\ \A i \in DOMAIN jobs :
                    (i # j /\ jobs'[i].st = "running") => jobs[i].st = "running"]_vars
  /\ [](_persistQueue # <<>> => (_persistActive > 0 \/ drains > 0))

\* Three jobs or more were enqueued, some had to wait, and all have ended
C39_Witness ==
  /\ Len(jobs) >= 3
  /\ \A j \in DOMAIN jobs : jobs[j].st \in {"done", "failed"}
  /\ _persistQueue = <<>> /\ _persistActive = 0

(***************************************************************************)
(* splitIntoChunks on its own: short texts of letters and full stops       *)
(***************************************************************************)
MaxSplitText == 4
MaxSplitLen == 3

SplitChars == {"a", "."}

SplitTexts == UNION {[1..n -> SplitChars] : n \in 0..MaxSplitText}

InitSplit ==
  /\ \E t \in SplitTexts, maxLen \in 1..MaxSplitLen :
       split = [pc |-> "in", text |-> t, maxLen |-> maxLen, chunks |-> <<>>]
  /\ lru = [pc |-> "off"]
  /\ tn = [pc |-> "idle"] /\ negotiated = <<>> /\ feed = [pc |-> "off"]
  /\ ResolverIdle /\ MtIdle /\ QueueIdle /\ BatchIdle

SplitCall ==
  /\ split.pc = "in"
  /\ split' = [split EXCEPT !.pc = "out",
                            !.chunks = splitIntoChunks(split.text, split.maxLen)]
  /\ UNCHANGED <<tn, negotiated, feed, lru>>
  /\ UNCHANGED <<resolverVars, mtVars, queueVars, batchVars>>

NextSplit == SplitCall

SpecSplit == InitSplit /\ [][NextSplit]_vars

(***************************************************************************)
(* C40                                                                     *)
(***************************************************************************)
RECURSIVE Join(_)
Join(cs) == IF cs = <<>> THEN <<>> ELSE Head(cs) \o Join(Tail(cs))

\* C40: for every text longer than maxLen the chunks of splitIntoChunks,
\* joined in order, are the text; every chunk is non-empty and none is
\* longer than maxLen.
C40_LosslessOrdered ==
  (split.pc = "out" /\ Len(split.text) > split.maxLen) =>
    /\ Join(split.chunks) = split.text
    /\ \A i \in DOMAIN split.chunks :
         /\ split.chunks[i] # <<>>
         /\ Len(split.chunks[i]) <= split.maxLen

====
